---- MODULE Spec2Model ----
(***************************************************************************)
(* pg_probackup: backup catalog locking (catalog.c), control-file writes   *)
(* (catalog.c), the backup session (backup.c) and the page-level data-file *)
(* engine (data.c).                                                        *)
(*                                                                         *)
(* The module holds several specifications over one set of variables; each *)
(* leaves the variables of the other parts at their initial values:        *)
(*   SpecLock    - lock_backup / unlink_lock_atexit between processes      *)
(*   Spec        - one backup session (do_backup) with its worker threads, *)
(*                 the exit callbacks and a concurrent control-file reader *)
(*   SpecFaults  - the same session when writes to the catalog may fail    *)
(*   SpecData    - one relation file changed by the database, backed up    *)
(*                 by a FULL and then a DELTA backup and restored          *)
(*   SpecCatalog - concurrent backup sessions filling the backup catalog   *)
(*   SpecChain   - the parent-chain functions on the catalogs the program  *)
(*                 writes                                                  *)
(*   SpecFile    - backup_data_file, prepare_page, check_data_file on any  *)
(*                 data file                                               *)
(*   SpecLockAlone - lock_backup calls no other process disturbs           *)
(*   SpecLockRetry - lock_backup against any change of the lockfile        *)
(*   SpecCopy    - the threads of backup_files on the file list            *)
(*   SpecStop    - pg_stop_backup and the WAL stream thread                *)
(*   SpecWait    - wait_wal_lsn against a changing WAL directory           *)
(*   SpecPagemap - make_pagemap_from_ptrack on any file list               *)
(*   SpecFilelist - write_backup_filelist on any file list                 *)
(*   SpecUnlogged - parse_filelist_filenames on any sorted file list       *)
(*   SpecChainAny - the parent links and the walk of                       *)
(*                 find_parent_full_backup on any catalog                  *)
(*   SpecStatus  - write_backup_status on any control file                 *)
(***************************************************************************)
EXTENDS Integers, Sequences, FiniteSets, TLC

(***************************************************************************)
(* Bounds of the model                                                     *)
(***************************************************************************)
\* number of pg_probackup processes contending for lockfiles
NProcs == 3
\* number of backup directories that can be locked
NBackups == 1
\* lock_backup calls made by all processes together
MaxLockCalls == 3
\* number of file workers (num_threads) of a backup session
NWorkers == 2
\* number of files in backup_files_list
NFiles == 1
\* periodic rewrites of the control file by the lead worker
MaxPeriodic == 1
\* runs of the concurrent reader of backup.control
MaxReads == 1
\* inodes of the file system holding backup.control and backup.control.tmp
NInodes == 3
\* MAXIMUM_ALIGNOF, scaled down: the unit of MAXALIGN
MAXIMUM_ALIGNOF == 2
\* blocks the relation file can have
MaxBlocks == 2
\* LSNs the database can stamp on pages
MaxLsn == 2
\* pg_probackup processes taking backups of the instance
NSessions == 2
\* backups taken: the seconds in which a backup process starts
MaxTime == 3
\* timelines of the database
MaxTli == 2
\* backup directories a catalog handed to the chain functions can hold
MaxDirs == 3

(***************************************************************************)
(* Program constants                                                       *)
(***************************************************************************)
\* catalog.c:161  "ntries > 100"
LockMaxTries == 100
\* "size unknown" of data_bytes and write_size (pgBackupInit, catalog.c:1008)
BYTES_INVALID == -1
\* page states of prepare_page (data.c:288-289)
PageIsTruncated == -2
SkipCurrentPage == -3
\* ... and of a page that fails its check in checkdb (data.c:290)
PageIsCorrupted == -4
\* attempts of prepare_page to read a valid page (data.c:303)
try_again == 100
\* bitmapsize of a file without a page map (data.c:545)
PageBitmapIsEmpty == 0
\* number of values a pg_crc32 takes
CrcMod == 251
\* n_blocks of a file whose block count was not recorded (data.c:765)
BLOCKNUM_INVALID == -1
\* first program version whose raw pages are never compressed (data.c:148)
FixedVersion == 20023
\* zlib's "output buffer too small", returned as rc (data.c:44)
Z_BUF_ERROR == -5
\* first byte of a zlib stream (data.c:121)
ZLIB_MAGIC == 120
\* "no backup": parent_backup of a backup without parent (catalog.c:578)
INVALID_BACKUP_ID == 0
\* block size, scaled down: a multiple of MAXIMUM_ALIGNOF
BLCKSZ == 2 * MAXIMUM_ALIGNOF

VARIABLES
    \* ---- lock protocol (catalog.c lock_backup) ----
    lockfile,              \* [Backups -> file]: <backup-dir>/backup.pid
    lpc,                   \* [Procs -> position inside lock_backup / exit]
    ltarget,               \* [Procs -> backup whose lock_file path is used]
    ntries,                \* [Procs -> loop counter of lock_backup]
    encoded_pid,           \* [Procs -> PID last read from the lockfile, 0: none]
    lock_files,            \* [Procs -> Seq(Backups)]: registry of held lockfiles
    exit_hook_registered,  \* [Procs -> BOOLEAN]
    palive,                \* [Procs -> BOOLEAN]: kill(pid, 0) == 0
    lresult,               \* [Procs -> result of the last lock_backup call]
    lcalls,                \* number of lock_backup calls made so far
    held,                  \* history: PID that owned the lockfile during the whole call
    \* ---- backup session (backup.c do_backup) ----
    mpc,                   \* position of the main thread
    wcont,                 \* where the main thread goes on after write_backup
    in_cleanup,            \* exit() has begun: the atexit callbacks run
    exitq,                 \* callbacks the exiting process has still to run
    current,               \* pgBackup current: status, end_time, data_bytes
    pgut_atexit_stack,     \* registered callbacks, last pushed first
    backup_in_progress,    \* backup.c:86
    pg_stop_backup_is_sent,\* backup.c:88
    interrupted,           \* set by the signal handler
    thread_interrupted,    \* set when a worker thread raises an error
    wpc,                   \* [Workers -> position of the worker thread]
    widx,                  \* [Workers -> loop index i of backup_files]
    wret,                  \* [Workers -> arguments->ret]
    flock,                 \* [Files -> thread that won file->lock, 0: nobody]
    nperiodic,             \* periodic rewrites done by the lead worker
    fs,                    \* [Paths -> inode the path names, 0: no such file]
    inode,                 \* [Inodes -> lines of the file]
    wfd,                   \* [Writers -> inode open for writing, 0: none]
    rpc, rfd, rbuf, nreads,\* the reader: position, open inode, lines read
    wfaults,               \* writes to the backup catalog may fail
    installed,             \* history: contents renamed onto backup.control
    h,                     \* history flags of the session
    \* ---- data-file engine (data.c) ----
    dpc,                   \* position of the backup / restore scenario
    relfile,               \* the relation file in PGDATA: sequence of pages
    insert_lsn,            \* LSN the next page change is stamped with
    backups,               \* [Bk -> pgBackup: mode, start LSN, compression]
    file,                  \* [Bk -> pgFile entry of the relation file]
    bfile,                 \* [Bk -> content of the file in the backup]
    snap,                  \* history: [Bk -> relation file when backup_data_file ran]
    target,                \* the restored relation file: sequence of pages
    \* ---- backup catalog (catalog.c, backup.c) ----
    catalog,               \* the backup directories: what their backup.control reads as
    now,                   \* time(NULL) of the next process that starts
    timeline,              \* current timeline of the database
    spc,                   \* [Sessions -> position inside do_backup]
    cur,                   \* [Sessions -> pgBackup current of the process]
    prev_backup,           \* [Sessions -> the parent do_backup_instance has chosen]
    \* ---- parent chains (catalog.c) ----
    call,                  \* the last call of a chain function and its result
    \* ---- the copy of the file list by the threads (backup.c backup_files) ----
    files_list,            \* [Entries -> pgFile]: lock flag and size fields
    threads,               \* [Workers -> position, loop index i, arguments->ret]
    copy_pc,               \* position of do_backup_instance around the threads
    fhist,                 \* history: [Entries -> winners of the flag, writers]
    backup_content,        \* backup_content.control: write_size of each line
    \* ---- the end of the backup and the WAL stream (backup.c) ----
    stop_backup_lsn,       \* backup.c:37, InvalidXLogRecPtr until pg_stop_backup
    stream_stop_timeout,   \* backup.c:44
    stream_stop_begin,     \* backup.c:46
    clock,                 \* time(NULL)
    stream_wal,            \* --stream
    from_replica,          \* current.from_replica
    stream_thread,         \* the stream thread: position, xlogpos, ret
    stop,                  \* pg_stop_backup: position, stop_lsn_exists, history
    \* ---- the wait for WAL (backup.c wait_wal_lsn) ----
    wait,                  \* the call: arguments, file_exists, try_count, result
    wal                    \* the WAL directory as the call finds it

lockVars == <<lockfile, lpc, ltarget, ntries, encoded_pid, lock_files,
              exit_hook_registered, palive, lresult, lcalls, held>>

ctlVars == <<mpc, wcont, in_cleanup, exitq>>
dbVars == <<pgut_atexit_stack, backup_in_progress, pg_stop_backup_is_sent>>
thrVars == <<wpc, widx, wret, flock, nperiodic, thread_interrupted>>
fsVars == <<fs, inode, wfd, installed>>
rdVars == <<rpc, rfd, rbuf, nreads>>
sessVars == <<ctlVars, dbVars, thrVars, fsVars, rdVars, current, interrupted,
              wfaults, h>>

dataVars == <<dpc, relfile, insert_lsn, backups, file, bfile, snap, target>>

catVars == <<catalog, now, timeline, spc, cur, prev_backup>>

chainVars == <<call>>

copyVars == <<files_list, threads, copy_pc, fhist, backup_content>>

stopVars == <<stop_backup_lsn, stream_stop_timeout, stream_stop_begin, clock,
              stream_wal, from_replica, stream_thread, stop>>

waitVars == <<wait, wal>>

auxVars == <<copyVars, stopVars, waitVars>>

vars == <<lockVars, sessVars, dataVars, catVars, chainVars, auxVars>>

\* the steps of one part of the program leave the other parts alone
LockFrame == UNCHANGED <<sessVars, dataVars, catVars, chainVars, auxVars>>
SessFrame == UNCHANGED <<lockVars, dataVars, catVars, chainVars, auxVars>>
DataFrame == UNCHANGED <<lockVars, sessVars, catVars, chainVars, auxVars>>
CatFrame == UNCHANGED <<lockVars, sessVars, dataVars, chainVars, auxVars>>
ChainFrame == UNCHANGED <<lockVars, sessVars, dataVars, catVars, auxVars>>

(***************************************************************************)
(* Lock protocol: catalog.c lock_backup, unlink_lock_atexit                *)
(***************************************************************************)
Procs == 1..NProcs
Backups == 1..NBackups

\* getpid(): the process number is its PID
MyPid(p) == p
\* getppid(): process 2 was started by process 1, the others by a shell
\* (PID 0 of the model) that never touches the catalog
MyParentPid(p) == IF p = 2 THEN 1 ELSE 0

\* A path of the file system names no file, or an inode created by `owner`
\* holding `pid` (0: created with O_EXCL but not yet filled).
NoFile == [owner |-> 0, pid |-> -1]
NewFile(p) == [owner |-> p, pid |-> 0]

LockInit ==
    /\ lockfile = [b \in Backups |-> NoFile]
    /\ lpc = [p \in Procs |-> "idle"]
    /\ ltarget = [p \in Procs |-> 1]
    /\ ntries = [p \in Procs |-> 0]
    /\ encoded_pid = [p \in Procs |-> 0]
    /\ lock_files = [p \in Procs |-> <<>>]
    /\ exit_hook_registered = [p \in Procs |-> FALSE]
    /\ palive = [p \in Procs |-> TRUE]
    /\ lresult = [p \in Procs |-> "none"]
    /\ lcalls = 0
    /\ held = [p \in Procs |-> 0]

InCall(p) == lpc[p] \in {"create", "read", "probe", "unlink", "fill"}

\* history variable `held`: a caller keeps the owner it saw at the call while
\* that owner is alive and no other process touches the lockfile; p is the
\* process that takes the step
HeldStep(p) ==
    held' = [q \in Procs |->
               IF /\ InCall(q)
                  /\ held[q] # 0
                  /\ (q = p \/ lockfile'[ltarget[q]] = lockfile[ltarget[q]])
                  /\ palive'[held[q]]
               THEN held[q]
               ELSE IF InCall(q) THEN 0 ELSE held[q]]

\* the position and the local variables of lock_backup in process p
Locals(p, pc, b, n, e) ==
    /\ lpc' = [lpc EXCEPT ![p] = pc]
    /\ ltarget' = [ltarget EXCEPT ![p] = b]
    /\ ntries' = [ntries EXCEPT ![p] = n]
    /\ encoded_pid' = [encoded_pid EXCEPT ![p] = e]

\* lock_backup returns res; its local variables are gone
LockReturn(p, res) ==
    /\ Locals(p, "idle", 1, 0, 0)
    /\ lresult' = [lresult EXCEPT ![p] = res]

\* elog(ERROR) inside lock_backup: the process leaves through exit()
LockError(p) ==
    /\ Locals(p, "atexit", 1, 0, 0)
    /\ lresult' = [lresult EXCEPT ![p] = "error"]

\* the owner seen by a call that starts now
OwnerAtCall(p, b) ==
    LET f == lockfile[b] IN
    IF /\ f.pid > 0 /\ f.pid # MyPid(p) /\ f.pid # MyParentPid(p)
       /\ f.pid \in Procs /\ palive[f.pid]
    THEN f.pid ELSE 0

\* lock_backup(backup) is entered
LockCall(p, b) ==
    /\ LockFrame
    /\ lpc[p] = "idle" /\ palive[p]
    /\ lcalls < MaxLockCalls
    /\ Locals(p, "create", b, 0, 0)
    /\ lcalls' = lcalls + 1
    /\ lresult' = [lresult EXCEPT ![p] = "none"]
    /\ held' = [held EXCEPT ![p] = OwnerAtCall(p, b)]
    /\ UNCHANGED <<lockfile, lock_files, exit_hook_registered, palive>>

\* fio_open(lock_file, O_RDWR | O_CREAT | O_EXCL)
LockCreate(p) ==
    /\ LockFrame
    /\ lpc[p] = "create"
    /\ LET b == ltarget[p] IN
       IF lockfile[b] = NoFile
       THEN /\ lockfile' = [lockfile EXCEPT ![b] = NewFile(p)]
            /\ Locals(p, "fill", b, ntries[p], encoded_pid[p])
            /\ UNCHANGED lresult
       ELSE /\ UNCHANGED lockfile
            /\ IF ntries[p] > LockMaxTries
               THEN LockError(p)
               ELSE /\ Locals(p, "read", b, ntries[p], encoded_pid[p])
                    /\ UNCHANGED lresult
    /\ UNCHANGED <<lock_files, exit_hook_registered, palive, lcalls>>
    /\ HeldStep(p)

\* a mutant of AfterRead: every lockfile found is taken for a stale one
AfterReadAlwaysStale(p, pid) ==
    "unlink"

\* a mutant of AfterRead: the caller's own PID is probed like any other
AfterReadProbesOwn(p, pid) ==
    IF pid # MyParentPid(p) THEN "probe" ELSE "unlink"

\* which way lock_backup goes after it has read the PID
AfterRead(p, pid) ==
    IF pid # MyPid(p) /\ pid # MyParentPid(p) THEN "probe" ELSE "unlink"

\* fio_open(lock_file, O_RDONLY), fio_read, atoi
LockRead(p) ==
    /\ LockFrame
    /\ lpc[p] = "read"
    /\ LET b == ltarget[p]
           f == lockfile[b] IN
       IF f = NoFile
       THEN \* ENOENT: race condition; try again
            /\ Locals(p, "create", b, ntries[p] + 1, encoded_pid[p])
            /\ UNCHANGED lresult
       ELSE IF f.pid = 0
       THEN \* len == 0: "Lock file is empty"
            LockError(p)
       ELSE /\ Locals(p, AfterRead(p, f.pid), b, ntries[p], f.pid)
            /\ UNCHANGED lresult
    /\ UNCHANGED <<lockfile, lock_files, exit_hook_registered, palive, lcalls>>
    /\ HeldStep(p)

\* kill(encoded_pid, 0)
LockProbe(p) ==
    /\ LockFrame
    /\ lpc[p] = "probe"
    /\ IF palive[encoded_pid[p]]
       THEN \* "Process %d is using backup %s and still is running"
            LockReturn(p, "false")
       ELSE \* ESRCH: "Process %d which used backup %s no longer exists"
            /\ Locals(p, "unlink", ltarget[p], ntries[p], encoded_pid[p])
            /\ UNCHANGED lresult
    /\ UNCHANGED <<lockfile, lock_files, exit_hook_registered, palive, lcalls>>
    /\ HeldStep(p)

\* fio_unlink(lock_file) of the file found stale; the loop goes round
LockUnlink(p) ==
    /\ LockFrame
    /\ lpc[p] = "unlink"
    /\ LET b == ltarget[p] IN
       IF lockfile[b] = NoFile
       THEN \* "Could not remove old lock file"
            /\ LockError(p)
            /\ UNCHANGED lockfile
       ELSE /\ lockfile' = [lockfile EXCEPT ![b] = NoFile]
            /\ Locals(p, "create", b, ntries[p] + 1, encoded_pid[p])
            /\ UNCHANGED lresult
    /\ UNCHANGED <<lock_files, exit_hook_registered, palive, lcalls>>
    /\ HeldStep(p)

\* a mutant of RegisterLock: the path is kept only when the registry is new
RegisterLockFirstOnly(files, b) ==
    IF files = <<>> THEN <<b>> ELSE files

\* parray_append(lock_files, pgut_strdup(lock_file))
RegisterLock(files, b) ==
    Append(files, b)

\* the write through the descriptor reaches the inode the caller created; the
\* path shows it only while it still names that inode
FillFile(f, p) ==
    IF f.owner = p /\ f.pid = 0 THEN [f EXCEPT !.pid = MyPid(p)] ELSE f

\* fio_write / fio_flush / fio_close of "<pid>\n", then the registration of
\* the exit hook and of the path; on failure the path is unlinked
LockFill(p, ok) ==
    /\ LockFrame
    /\ lpc[p] = "fill"
    /\ LET b == ltarget[p] IN
       IF ok
       THEN /\ lockfile' = [lockfile EXCEPT ![b] = FillFile(@, p)]
            /\ exit_hook_registered' = [exit_hook_registered EXCEPT ![p] = TRUE]
            /\ lock_files' = [lock_files EXCEPT ![p] = RegisterLock(@, b)]
            /\ LockReturn(p, "true")
       ELSE /\ lockfile' = [lockfile EXCEPT ![b] = NoFile]
            /\ LockError(p)
            /\ UNCHANGED <<exit_hook_registered, lock_files>>
    /\ UNCHANGED <<palive, lcalls>>
    /\ HeldStep(p)

\* fio_open(lock_file, O_RDWR | O_CREAT | O_EXCL) fails with EACCES: the
\* directory is not writable
LockCreateDenied(p) ==
    /\ LockFrame
    /\ lpc[p] = "create"
    /\ IF ntries[p] > LockMaxTries
       THEN LockError(p)
       ELSE /\ Locals(p, "read", ltarget[p], ntries[p], encoded_pid[p])
            /\ UNCHANGED lresult
    /\ UNCHANGED <<lockfile, lock_files, exit_hook_registered, palive, lcalls>>
    /\ HeldStep(p)

\* fio_unlink(lock_file) fails: "Could not remove old lock file"
LockUnlinkDenied(p) ==
    /\ LockFrame
    /\ lpc[p] = "unlink"
    /\ LockError(p)
    /\ UNCHANGED <<lockfile, lock_files, exit_hook_registered, palive, lcalls>>
    /\ HeldStep(p)

\* what other processes do to the lockfile of backup b, taken together: q
\* removes it, creates it, or creates and fills it
OtherProcess(q, b, f) ==
    /\ LockFrame
    /\ f \in {NoFile, NewFile(q), [owner |-> q, pid |-> MyPid(q)]}
    /\ lockfile' = [lockfile EXCEPT ![b] = f]
    /\ UNCHANGED <<lpc, ltarget, ntries, encoded_pid, lock_files,
                   exit_hook_registered, palive, lresult, lcalls>>
    /\ HeldStep(q)

\* the process calls exit(): after a false result, an error elsewhere, or at
\* the end of its command
ProcExit(p) ==
    /\ LockFrame
    /\ lpc[p] = "idle" /\ palive[p]
    /\ lpc' = [lpc EXCEPT ![p] = "atexit"]
    /\ UNCHANGED <<lockfile, ltarget, ntries, encoded_pid, lock_files,
                   exit_hook_registered, palive, lresult, lcalls, held>>

\* a mutant of AtexitUnlink: the registry is dropped without unlinking
AtexitForget(f) ==
    f

\* fio_unlink(lock_file) of unlink_lock_atexit: ENOENT is ignored
AtexitUnlink(f) ==
    NoFile

\* unlink_lock_atexit: one registered path per step, then the process is gone
ProcAtexit(p) ==
    /\ LockFrame
    /\ lpc[p] = "atexit"
    /\ IF exit_hook_registered[p] /\ lock_files[p] # <<>>
       THEN /\ lockfile' = [lockfile EXCEPT ![Head(lock_files[p])] = AtexitUnlink(@)]
            /\ lock_files' = [lock_files EXCEPT ![p] = Tail(@)]
            /\ UNCHANGED <<lpc, palive>>
       ELSE /\ lpc' = [lpc EXCEPT ![p] = "exited"]
            /\ palive' = [palive EXCEPT ![p] = FALSE]
            /\ UNCHANGED <<lockfile, lock_files>>
    /\ UNCHANGED <<ltarget, ntries, encoded_pid, exit_hook_registered,
                   lresult, lcalls>>
    /\ HeldStep(p)

\* SIGKILL or power loss: no exit hook runs, the lockfiles stay behind and
\* the memory of the process is gone
ProcKill(p) ==
    /\ LockFrame
    /\ palive[p] /\ lpc[p] # "exited"
    /\ Locals(p, "killed", 1, 0, 0)
    /\ palive' = [palive EXCEPT ![p] = FALSE]
    /\ lock_files' = [lock_files EXCEPT ![p] = <<>>]
    /\ exit_hook_registered' = [exit_hook_registered EXCEPT ![p] = FALSE]
    /\ UNCHANGED <<lockfile, lresult, lcalls>>
    /\ HeldStep(p)

(***************************************************************************)
(* Backup session: backup.c do_backup, do_backup_instance, pg_start_backup,*)
(* pg_stop_backup, backup_files, backup_cleanup; catalog.c write_backup    *)
(***************************************************************************)
Workers == 1..NWorkers
\* threads that call write_backup: 0 is the main thread, 1 the lead worker
\* (arguments->thread_num == 1)
Writers == {0, 1}
Files == 1..NFiles
Inodes == 1..NInodes

\* BACKUP_CONTROL_FILE of the backup directory
ControlPath == "backup.control"
Paths == {"backup.control", "backup.control.tmp"}

\* a mutant of PathTemp: the control file is rewritten in place
PathTempInPlace(path) ==
    path

\* another mutant of PathTemp: the temporary file has the name of the
\* control file
PathTempIsPath(path) ==
    path

\* snprintf(path_temp, ..., "%s.tmp", path)
PathTemp(path) ==
    path \o ".tmp"

\* the lines pgBackupWriteControl prints that the model follows
pgBackupWriteControl(backup) ==
    <<  <<"start-time", "1">> >>
    \o (IF backup.end_time > 0
        THEN << <<"end-time", ToString(backup.end_time)>> >> ELSE <<>>)
    \o (IF backup.data_bytes # BYTES_INVALID
        THEN << <<"data-bytes", ToString(backup.data_bytes)>> >> ELSE <<>>)
    \o << <<"status", backup.status>> >>

\* the value readBackupControlFile finds for a key of the control file
ControlValue(lines, key) ==
    LET hit == SelectSeq(lines, LAMBDA l : l[1] = key) IN
    IF hit = <<>> THEN "" ELSE hit[Len(hit)][2]

\* status of the backup as the catalog on disk shows it
DiskStatus ==
    IF fs[ControlPath] = 0 THEN "NONE"
    ELSE ControlValue(inode[fs[ControlPath]], "status")

\* end-time of the backup as the catalog on disk shows it ("": zero)
DiskEndTime ==
    IF fs[ControlPath] = 0 THEN ""
    ELSE ControlValue(inode[fs[ControlPath]], "end-time")

\* outcomes of an operation on the backup catalog
Faults == IF wfaults THEN BOOLEAN ELSE {TRUE}

SessInit(faults) ==
    /\ mpc = "start" /\ wcont = "none" /\ in_cleanup = FALSE /\ exitq = <<>>
    /\ current = [status |-> "INVALID", end_time |-> 0,
                  data_bytes |-> BYTES_INVALID]
    /\ pgut_atexit_stack = <<>>
    /\ backup_in_progress = FALSE
    /\ pg_stop_backup_is_sent = FALSE
    /\ interrupted = FALSE
    /\ thread_interrupted = FALSE
    /\ wpc = [t \in Workers |-> "none"]
    /\ widx = [t \in Workers |-> 0]
    /\ wret = [t \in Workers |-> 0]
    /\ flock = [f \in Files |-> 0]
    /\ nperiodic = 0
    /\ fs = [p \in Paths |-> 0]
    /\ inode = [n \in Inodes |-> <<>>]
    /\ wfd = [t \in Writers |-> 0]
    /\ rpc = "idle" /\ rfd = 0 /\ rbuf = <<>> /\ nreads = 0
    /\ wfaults = faults
    /\ installed = {}
    /\ h = [joined |-> FALSE, stop_result |-> FALSE, stop_lsn |-> FALSE,
            final_list |-> FALSE, sent_normal |-> 0, sent_cleanup |-> 0,
            abnormal |-> FALSE,
            cleanup_write_failed |-> FALSE, write_failed |-> {}]

\* position of a thread that can call write_backup
Pos(t) == IF t = 0 THEN mpc ELSE wpc[t]

\* exit() of the process: the registered callbacks run, last pushed first
\* (pgut.c, call_atexit_callbacks)
ProcessExit ==
    /\ mpc' = "exit"
    /\ in_cleanup' = TRUE
    /\ exitq' = pgut_atexit_stack
    /\ wcont' = "none"

\* elog(ERROR) in the main thread outside the cleanup: exit(), an abnormal end
MainError(hist) ==
    /\ ProcessExit
    /\ h' = [hist EXCEPT !.abnormal = TRUE]

\* the main thread goes on at pc
Goto(pc) ==
    /\ mpc' = pc
    /\ UNCHANGED <<wcont, in_cleanup, exitq>>

\* the main thread calls write_backup(&current) and goes on at cont
CallWrite(cont) ==
    /\ mpc' = "write_open"
    /\ wcont' = cont
    /\ UNCHANGED <<in_cleanup, exitq>>

\* pgut_atexit_push: the callback becomes the first of the list
pgut_atexit_push(stack, cb) ==
    <<cb>> \o stack

\* pgut_atexit_pop: the callback is taken out of the list
pgut_atexit_pop(stack, cb) ==
    SelectSeq(stack, LAMBDA c : c # cb)

(* ---- catalog.c write_backup, step by step ---- *)

\* an inode no path and no descriptor refers to
FreeInode ==
    CHOOSE n \in Inodes :
        /\ \A p \in Paths : fs[p] # n
        /\ \A t \in Writers : wfd[t] # n
        /\ rfd # n
        /\ \A m \in Inodes :
              (m < n) => \/ \E p \in Paths : fs[p] = m
                         \/ \E t \in Writers : wfd[t] = m
                         \/ rfd = m

\* elog(ERROR) under write_backup: a worker thread ends with
\* thread_interrupted set, the main thread exits, and inside the exit
\* callbacks the error does not end the process (logger.c exit_if_necessary)
WriteErrorAt(t, hist) ==
    IF t = 0
    THEN /\ IF in_cleanup
            THEN /\ mpc' = wcont
                 /\ h' = [hist EXCEPT !.cleanup_write_failed = TRUE]
                 /\ UNCHANGED <<wcont, in_cleanup, exitq>>
            ELSE MainError(hist)
         /\ UNCHANGED <<wpc, thread_interrupted>>
    ELSE /\ wpc' = [wpc EXCEPT ![t] = "dead"]
         /\ thread_interrupted' = TRUE
         /\ h' = hist
         /\ UNCHANGED ctlVars

\* the same where the history has nothing to add
WriteError(t) == WriteErrorAt(t, h)

\* write_backup moves on inside the same thread
WriteGoes(t, pc) ==
    /\ IF t = 0
       THEN mpc' = pc /\ UNCHANGED wpc
       ELSE wpc' = [wpc EXCEPT ![t] = pc] /\ UNCHANGED mpc
    /\ UNCHANGED <<wcont, in_cleanup, exitq, thread_interrupted, h>>

\* fio_fopen(path_temp, PG_BINARY_W): creates the file or truncates it
write_backup_open(t, ok) ==
    /\ SessFrame
    /\ Pos(t) = "write_open"
    /\ LET tmp == PathTemp(ControlPath) IN
       IF ok
       THEN /\ LET n == IF fs[tmp] # 0 THEN fs[tmp] ELSE FreeInode IN
               /\ fs' = [fs EXCEPT ![tmp] = n]
               /\ inode' = [inode EXCEPT ![n] = <<>>]
               /\ wfd' = [wfd EXCEPT ![t] = n]
            /\ WriteGoes(t, "write_print")
       ELSE /\ WriteError(t)
            /\ UNCHANGED <<fs, inode, wfd>>
    /\ UNCHANGED <<installed, dbVars, widx, wret, flock, nperiodic, rdVars,
                   current, interrupted, wfaults>>

\* pgBackupWriteControl(fp, backup): one more line reaches the file
write_backup_print(t) ==
    /\ SessFrame
    /\ Pos(t) = "write_print"
    /\ LET want == pgBackupWriteControl(current)
           have == inode[wfd[t]] IN
       /\ inode' = [inode EXCEPT ![wfd[t]] = Append(have, want[Len(have) + 1])]
       /\ WriteGoes(t, IF Len(have) + 1 = Len(want) THEN "write_close"
                       ELSE "write_print")
    /\ UNCHANGED <<fs, wfd, installed, dbVars, widx, wret, flock, nperiodic,
                   rdVars, current, interrupted, wfaults>>

\* rename(2): newpath names the inode of oldpath; the same path twice is a
\* no-op
Rename(files, old, new) ==
    IF old = new THEN files
    ELSE [files EXCEPT ![new] = files[old], ![old] = 0]

\* the file system frees an inode that no path names and no descriptor in
\* `open` refers to
Reclaim(ino, files, open) ==
    [n \in Inodes |->
        IF (\E p \in Paths : files[p] = n) \/ n \in open THEN ino[n] ELSE <<>>]

\* fio_fflush, fio_fclose and fio_rename(path_temp, path); on a failure of
\* any of the three the temporary file is unlinked and an error is raised
\* (h.write_failed: the threads it was raised in)
write_backup_close(t, ok) ==
    /\ SessFrame
    /\ Pos(t) = "write_close"
    /\ LET tmp == PathTemp(ControlPath) IN
       IF ok
       THEN /\ fs' = Rename(fs, tmp, ControlPath)
            /\ installed' = installed \cup {inode[fs[tmp]]}
            /\ WriteGoes(t, IF t = 0 THEN wcont ELSE "loop")
       ELSE /\ fs' = [fs EXCEPT ![tmp] = 0]
            /\ WriteErrorAt(t, [h EXCEPT !.write_failed = @ \cup {t}])
            /\ UNCHANGED installed
    /\ wfd' = [wfd EXCEPT ![t] = 0]
    /\ inode' = Reclaim(inode, fs', {rfd} \cup {wfd'[w] : w \in Writers})
    /\ UNCHANGED <<dbVars, widx, wret, flock, nperiodic, rdVars,
                   current, interrupted, wfaults>>

(* ---- a reader of the catalog: catalog.c readBackupControlFile ---- *)

\* fopen(path, "r") of the control file
reader_open ==
    /\ SessFrame
    /\ rpc # "opened" /\ nreads < MaxReads
    /\ nreads' = nreads + 1
    /\ rbuf' = <<>>
    /\ IF fs[ControlPath] = 0
       THEN rpc' = "idle" /\ UNCHANGED rfd
       ELSE rpc' = "opened" /\ rfd' = fs[ControlPath]
    /\ UNCHANGED <<ctlVars, dbVars, thrVars, fsVars, current, interrupted,
                   wfaults, h>>

\* the reader reads the file it opened to its end and closes it
reader_read ==
    /\ SessFrame
    /\ rpc = "opened"
    /\ rbuf' = inode[rfd]
    /\ rfd' = 0
    /\ rpc' = "got"
    /\ inode' = Reclaim(inode, fs, {wfd[w] : w \in Writers})
    /\ UNCHANGED <<nreads, ctlVars, dbVars, thrVars, fs, wfd, installed,
                   current, interrupted, wfaults, h>>

(* ---- the main thread: do_backup ---- *)

\* SIGINT / SIGTERM: the handler only sets the flag
on_interrupt ==
    /\ SessFrame
    /\ ~interrupted /\ mpc \notin {"exit", "exited"}
    /\ interrupted' = TRUE
    /\ UNCHANGED <<ctlVars, dbVars, thrVars, fsVars, rdVars, current,
                   wfaults, h>>

\* do_backup: status RUNNING, pgBackupCreateDir, lock_backup, write_backup
do_backup_init(ok) ==
    /\ SessFrame
    /\ mpc = "start"
    /\ current' = [current EXCEPT !.status = "RUNNING"]
    /\ IF ok THEN CallWrite("push") /\ UNCHANGED h ELSE MainError(h)
    /\ UNCHANGED <<dbVars, thrVars, fsVars, rdVars, interrupted, wfaults>>

\* pgut_atexit_push(backup_cleanup, NULL)
do_backup_push ==
    /\ SessFrame
    /\ mpc = "push"
    /\ pgut_atexit_stack' = pgut_atexit_push(pgut_atexit_stack, "backup_cleanup")
    /\ Goto("parent")
    /\ UNCHANGED <<backup_in_progress, pg_stop_backup_is_sent, thrVars, fsVars,
                   rdVars, current, interrupted, wfaults, h>>

\* do_backup_instance: an incremental backup looks for its parent and
\* records it with write_backup; a FULL backup goes on
do_backup_instance_parent(incremental, ok) ==
    /\ SessFrame
    /\ mpc = "parent"
    /\ IF ~incremental THEN Goto("start_backup") /\ UNCHANGED h
       ELSE IF ok THEN CallWrite("start_backup") /\ UNCHANGED h
       ELSE MainError(h)
    /\ UNCHANGED <<dbVars, thrVars, fsVars, rdVars, current, interrupted,
                   wfaults>>

\* pg_start_backup: the query, then the flag and the exit callback
pg_start_backup(ok) ==
    /\ SessFrame
    /\ mpc = "start_backup"
    /\ IF ok
       THEN /\ backup_in_progress' = TRUE
            /\ pgut_atexit_stack' =
                  pgut_atexit_push(pgut_atexit_stack, "backup_stopbackup_callback")
            /\ Goto("start_wait")
            /\ UNCHANGED h
       ELSE /\ MainError(h)
            /\ UNCHANGED <<backup_in_progress, pgut_atexit_stack>>
    /\ UNCHANGED <<pg_stop_backup_is_sent, thrVars, fsVars, rdVars, current,
                   interrupted, wfaults>>

\* the rest of pg_start_backup (wait_wal_lsn), the check of the start LSN and
\* write_backup with the start LSN
pg_start_backup_wait(ok) ==
    /\ SessFrame
    /\ mpc = "start_wait"
    /\ IF ok THEN CallWrite("filelist") /\ UNCHANGED h ELSE MainError(h)
    /\ UNCHANGED <<dbVars, thrVars, fsVars, rdVars, current, interrupted,
                   wfaults>>

\* the file list is built and written (write_backup_filelist), then
\* write_backup
do_backup_instance_filelist(ok) ==
    /\ SessFrame
    /\ mpc = "filelist"
    /\ IF ok
       THEN /\ CallWrite("threads")
            /\ current' = [current EXCEPT !.data_bytes = 0]
            /\ UNCHANGED h
       ELSE /\ MainError(h)
            /\ UNCHANGED current
    /\ UNCHANGED <<dbVars, thrVars, fsVars, rdVars, interrupted, wfaults>>

\* arg->ret = 1 for every worker, thread_interrupted = false, pthread_create
do_backup_instance_threads ==
    /\ SessFrame
    /\ mpc = "threads"
    /\ wret' = [t \in Workers |-> 1]
    /\ wpc' = [t \in Workers |-> "loop"]
    /\ thread_interrupted' = FALSE
    /\ Goto("join")
    /\ UNCHANGED <<widx, flock, nperiodic, dbVars, fsVars, rdVars, current,
                   interrupted, wfaults, h>>

\* a mutant of backup_isok: the result flags are not looked at
backup_isok_always(ret) ==
    TRUE

\* backup_isok after the join loop
backup_isok(ret) ==
    \A t \in Workers : ret[t] # 1

\* pthread_join of every worker, then the check of the result flags
do_backup_instance_join ==
    /\ SessFrame
    /\ mpc = "join"
    /\ \A t \in Workers : wpc[t] \in {"done", "dead"}
    /\ IF backup_isok(wret)
       THEN Goto("stop_pre") /\ h' = [h EXCEPT !.joined = TRUE]
       ELSE MainError([h EXCEPT !.joined = TRUE])
    /\ widx' = [t \in Workers |-> 0]
    /\ flock' = [f \in Files |-> 0]
    /\ UNCHANGED <<wpc, wret, nperiodic, thread_interrupted, dbVars, fsVars,
                   rdVars, current, interrupted, wfaults>>

\* a mutant of WaitsForResult: pg_stop_backup never waits for the result
WaitsForResultNever(sent, cleanup) ==
    FALSE

\* "if (pg_stop_backup_is_sent && !in_cleanup)": pg_stop_backup waits for the
\* result of the query
WaitsForResult(sent, cleanup) ==
    sent /\ ~cleanup

\* a mutant of StopQueryNeeded: the query is sent whenever pg_stop_backup runs
StopQueryAlways(sent) ==
    TRUE

\* "if (!pg_stop_backup_is_sent)": pg_stop_backup sends the query
StopQueryNeeded(sent) ==
    ~sent

\* pg_stop_backup up to the query: "SET client_min_messages", the restore
\* point
pg_stop_backup_pre(ok) ==
    /\ SessFrame
    /\ mpc = "stop_pre"
    /\ IF ok THEN Goto("stop_send") /\ UNCHANGED h ELSE MainError(h)
    /\ UNCHANGED <<dbVars, thrVars, fsVars, rdVars, current, interrupted,
                   wfaults>>

\* pg_stop_backup called by do_backup_instance: pgut_send of the query, the
\* flag, the error if the send failed, and pgut_atexit_pop of the callback
pg_stop_backup_send(ok) ==
    /\ SessFrame
    /\ mpc = "stop_send"
    /\ LET send == StopQueryNeeded(pg_stop_backup_is_sent)
           hist == IF send THEN [h EXCEPT !.sent_normal = @ + 1] ELSE h IN
       /\ pg_stop_backup_is_sent' = (send \/ pg_stop_backup_is_sent)
       /\ IF send /\ ~ok
          THEN /\ MainError(hist)
               /\ UNCHANGED pgut_atexit_stack
          ELSE /\ pgut_atexit_stack' =
                     pgut_atexit_pop(pgut_atexit_stack, "backup_stopbackup_callback")
               /\ Goto(IF WaitsForResult(pg_stop_backup_is_sent', in_cleanup)
                       THEN "stop_wait" ELSE "stop_lsn")
               /\ h' = hist
    /\ UNCHANGED <<backup_in_progress, thrVars, fsVars, rdVars, current,
                   interrupted, wfaults>>

\* the wait loop of pg_stop_backup: the result arrives, or the wait is
\* interrupted, times out or fails (pgut_cancel and an error)
pg_stop_backup_wait(ok) ==
    /\ SessFrame
    /\ mpc = "stop_wait"
    /\ IF ok
       THEN /\ backup_in_progress' = FALSE
            /\ Goto("stop_lsn")
            /\ h' = [h EXCEPT !.stop_result = TRUE]
       ELSE /\ MainError(h)
            /\ UNCHANGED backup_in_progress
    /\ UNCHANGED <<pgut_atexit_stack, pg_stop_backup_is_sent, thrVars, fsVars,
                   rdVars, current, interrupted, wfaults>>

\* the rest of pg_stop_backup: backup_label, the join of the stream thread,
\* wait_wal_lsn for the stop LSN
pg_stop_backup_lsn(ok) ==
    /\ SessFrame
    /\ mpc = "stop_lsn"
    /\ IF ok
       THEN Goto("final_list") /\ h' = [h EXCEPT !.stop_lsn = TRUE]
       ELSE MainError(h)
    /\ UNCHANGED <<dbVars, thrVars, fsVars, rdVars, current, interrupted,
                   wfaults>>

\* write_backup_filelist of the final list, then write_backup
do_backup_instance_final(ok) ==
    /\ SessFrame
    /\ mpc = "final_list"
    /\ IF ok
       THEN /\ CallWrite("pop")
            /\ h' = [h EXCEPT !.final_list = TRUE]
            /\ current' = [current EXCEPT !.data_bytes = NFiles]
       ELSE /\ MainError(h)
            /\ UNCHANGED current
    /\ UNCHANGED <<dbVars, thrVars, fsVars, rdVars, interrupted, wfaults>>

\* do_backup after do_backup_instance: pgut_atexit_pop(backup_cleanup), the
\* end time, status DONE, write_backup
do_backup_done ==
    /\ SessFrame
    /\ mpc = "pop"
    /\ pgut_atexit_stack' = pgut_atexit_pop(pgut_atexit_stack, "backup_cleanup")
    /\ current' = [current EXCEPT !.end_time = 1, !.status = "DONE"]
    /\ CallWrite("validate")
    /\ UNCHANGED <<backup_in_progress, pg_stop_backup_is_sent, thrVars, fsVars,
                   rdVars, interrupted, wfaults, h>>

\* pgBackupValidate (validate.c): unless no_validate, the backup becomes OK
\* or ERROR and the status is written with write_backup
pgBackupValidate(result) ==
    /\ SessFrame
    /\ mpc = "validate"
    /\ IF result = "DONE"
       THEN Goto("finish") /\ UNCHANGED current
       ELSE /\ current' = [current EXCEPT !.status = result]
            /\ CallWrite("finish")
    /\ UNCHANGED <<dbVars, thrVars, fsVars, rdVars, interrupted, wfaults, h>>

\* the end of do_backup: "Backup completed" and a normal exit, or
\* elog(ERROR, "Backup failed")
do_backup_finish ==
    /\ SessFrame
    /\ mpc = "finish"
    /\ IF current.status \in {"OK", "DONE"}
       THEN ProcessExit /\ UNCHANGED h
       ELSE MainError(h)
    /\ UNCHANGED <<dbVars, thrVars, fsVars, rdVars, current, interrupted,
                   wfaults>>

(* ---- the exit callbacks ---- *)

\* backup_stopbackup_callback: pg_stop_backup(NULL, conn) if the backup is in
\* progress; inside the cleanup pg_stop_backup sends the query unless it was
\* sent, pops the callback and does not wait for the result
backup_stopbackup_callback ==
    /\ SessFrame
    /\ mpc = "exit" /\ exitq # <<>>
    /\ Head(exitq) = "backup_stopbackup_callback"
    /\ exitq' = Tail(exitq)
    /\ IF backup_in_progress
       THEN LET send == StopQueryNeeded(pg_stop_backup_is_sent) IN
            /\ pg_stop_backup_is_sent' = (send \/ pg_stop_backup_is_sent)
            /\ h' = IF send THEN [h EXCEPT !.sent_cleanup = @ + 1] ELSE h
            /\ pgut_atexit_stack' =
                  pgut_atexit_pop(pgut_atexit_stack, "backup_stopbackup_callback")
       ELSE UNCHANGED <<pg_stop_backup_is_sent, h, pgut_atexit_stack>>
    /\ UNCHANGED <<mpc, wcont, in_cleanup, backup_in_progress, thrVars, fsVars,
                   rdVars, current, interrupted, wfaults>>

\* a mutant of CleanupStatus: the cleanup leaves the status as it is
CleanupStatusKept(status) ==
    status

\* the status backup_cleanup gives a backup that is still RUNNING
CleanupStatus(status) ==
    "ERROR"

\* backup_cleanup: a backup still RUNNING with no end time becomes ERROR with
\* an end time, and write_backup
backup_cleanup ==
    /\ SessFrame
    /\ mpc = "exit" /\ exitq # <<>>
    /\ Head(exitq) = "backup_cleanup"
    /\ exitq' = Tail(exitq)
    /\ IF current.status = "RUNNING" /\ current.end_time = 0
       THEN /\ current' = [current EXCEPT !.end_time = 1,
                                          !.status = CleanupStatus(@)]
            /\ mpc' = "write_open"
            /\ wcont' = "exit"
       ELSE UNCHANGED <<current, mpc, wcont>>
    /\ UNCHANGED <<in_cleanup, dbVars, thrVars, fsVars, rdVars, interrupted,
                   wfaults, h>>

\* every callback has run: the process is gone
exit_done ==
    /\ SessFrame
    /\ mpc = "exit" /\ exitq = <<>>
    /\ mpc' = "exited"
    /\ UNCHANGED <<wcont, in_cleanup, exitq, dbVars, thrVars, fsVars, rdVars,
                   current, interrupted, wfaults, h>>

(* ---- the worker threads: backup.c backup_files ---- *)

\* the lead worker, at the top of its loop, more than 10 seconds after the
\* last time: write_backup_filelist and write_backup
backup_files_periodic(t, ok) ==
    /\ SessFrame
    /\ t = 1 /\ wpc[t] = "loop" /\ widx[t] < NFiles
    /\ nperiodic < MaxPeriodic
    /\ nperiodic' = nperiodic + 1
    /\ IF ok
       THEN /\ current' = [current EXCEPT
                              !.data_bytes = Cardinality({f \in Files : flock[f] # 0})]
            /\ wpc' = [wpc EXCEPT ![t] = "write_open"]
            /\ UNCHANGED thread_interrupted
       ELSE /\ wpc' = [wpc EXCEPT ![t] = "dead"]
            /\ thread_interrupted' = TRUE
            /\ UNCHANGED current
    /\ UNCHANGED <<widx, wret, flock, ctlVars, dbVars, fsVars, rdVars,
                   interrupted, wfaults, h>>

\* one round of the loop of backup_files: the test-and-set of file->lock, the
\* check for an interrupt, the copy of the file
backup_files_file(t, ok) ==
    /\ SessFrame
    /\ wpc[t] = "loop" /\ widx[t] < NFiles
    /\ LET f == widx[t] + 1 IN
       IF flock[f] # 0
       THEN /\ widx' = [widx EXCEPT ![t] = f]
            /\ UNCHANGED <<flock, wpc, thread_interrupted>>
       ELSE /\ flock' = [flock EXCEPT ![f] = t]
            /\ IF ok /\ ~interrupted /\ ~thread_interrupted
               THEN /\ widx' = [widx EXCEPT ![t] = f]
                    /\ UNCHANGED <<wpc, thread_interrupted>>
               ELSE /\ wpc' = [wpc EXCEPT ![t] = "dead"]
                    /\ thread_interrupted' = TRUE
                    /\ UNCHANGED widx
    /\ UNCHANGED <<wret, nperiodic, ctlVars, dbVars, fsVars, rdVars, current,
                   interrupted, wfaults, h>>

\* the end of backup_files: arguments->ret = 0
backup_files_end(t) ==
    /\ SessFrame
    /\ wpc[t] = "loop" /\ widx[t] = NFiles
    /\ wret' = [wret EXCEPT ![t] = 0]
    /\ wpc' = [wpc EXCEPT ![t] = "done"]
    /\ UNCHANGED <<widx, flock, nperiodic, thread_interrupted, ctlVars, dbVars,
                   fsVars, rdVars, current, interrupted, wfaults, h>>

NextSession ==
    \/ \E ok \in BOOLEAN : do_backup_init(ok)
    \/ do_backup_push
    \/ \E incremental \in BOOLEAN, ok \in BOOLEAN :
          do_backup_instance_parent(incremental, ok)
    \/ \E ok \in BOOLEAN : pg_start_backup(ok)
    \/ \E ok \in BOOLEAN : pg_start_backup_wait(ok)
    \/ \E ok \in Faults : do_backup_instance_filelist(ok)
    \/ do_backup_instance_threads
    \/ do_backup_instance_join
    \/ \E ok \in BOOLEAN : pg_stop_backup_pre(ok)
    \/ \E ok \in BOOLEAN : pg_stop_backup_send(ok)
    \/ \E ok \in BOOLEAN : pg_stop_backup_wait(ok)
    \/ \E ok \in BOOLEAN : pg_stop_backup_lsn(ok)
    \/ \E ok \in Faults : do_backup_instance_final(ok)
    \/ do_backup_done
    \/ \E result \in {"DONE", "OK", "ERROR"} : pgBackupValidate(result)
    \/ do_backup_finish
    \/ backup_stopbackup_callback
    \/ backup_cleanup
    \/ exit_done
    \/ on_interrupt
    \/ \E t \in Workers :
          \/ \E ok \in Faults : backup_files_periodic(t, ok)
          \/ \E ok \in BOOLEAN : backup_files_file(t, ok)
          \/ backup_files_end(t)
    \/ \E t \in Writers :
          \/ \E ok \in Faults : write_backup_open(t, ok)
          \/ write_backup_print(t)
          \/ \E ok \in Faults : write_backup_close(t, ok)
    \/ reader_open
    \/ reader_read

\* the backups of the data-file scenario: the parent P and the DELTA B
Bk == {"P", "B"}

\* a backup that has no entry for the relation file
NoEntry == [listed |-> FALSE]

DataInit ==
    /\ dpc = "init"
    /\ relfile = <<>>
    /\ insert_lsn = 1
    /\ backups = [b \in Bk |-> [backup_mode |-> IF b = "P" THEN "FULL" ELSE "DELTA",
                              start_lsn |-> 0, compress_alg |-> "none"]]
    /\ file = [b \in Bk |-> NoEntry]
    /\ bfile = [b \in Bk |-> <<>>]
    /\ snap = [b \in Bk |-> <<>>]
    /\ target = <<>>

Sessions == 1..NSessions

\* pgBackupInit, with the start time a reader takes from the directory name
pgBackupInit(start_time) ==
    [start_time |-> start_time, backup_mode |-> "INVALID", status |-> "INVALID",
     tli |-> 0, parent_backup |-> INVALID_BACKUP_ID, start_lsn |-> 0]

\* no chain function has been called
NoCall == [fn |-> "none"]

CatInit ==
    /\ catalog = {}
    /\ now = 1
    /\ timeline = 1
    /\ spc = [s \in Sessions |-> "idle"]
    /\ cur = [s \in Sessions |-> pgBackupInit(0)]
    /\ prev_backup = [s \in Sessions |-> pgBackupInit(0)]

(***************************************************************************)
(* The copy of the file list by the threads, step by step: backup.c        *)
(* do_backup_instance around the threads, and backup_files                 *)
(***************************************************************************)
NEntries == 3

FILE_NOT_FOUND == -2

Entries == 1..NEntries

\* a pgFile of the list before the threads run; the flag is set or not until
\* do_backup_instance clears it
pgFileListed(lock) ==
    [lock |-> lock, write_size |-> 0, read_size |-> 0, crc |-> 0, n_blocks |-> 0]

\* a thread that is not running
NoThread == [pc |-> "none", i |-> 0, ret |-> 0]

\* nobody has won the flag of the entry, nobody has written to it
NoHistory == [winners |-> <<>>, writers |-> {}, processed |-> 0, gone |-> FALSE]

CopyInit ==
    /\ files_list = [e \in Entries |-> pgFileListed(FALSE)]
    /\ threads = [t \in Workers |-> NoThread]
    /\ copy_pc = "setup"
    /\ fhist = [e \in Entries |-> NoHistory]
    /\ backup_content = <<>>

\* the same before the flags are cleared: they hold anything
CopyInitAny ==
    /\ files_list \in [Entries -> {pgFileListed(lock) : lock \in BOOLEAN}]
    /\ threads = [t \in Workers |-> NoThread]
    /\ copy_pc = "setup"
    /\ fhist = [e \in Entries |-> NoHistory]
    /\ backup_content = <<>>

CopyFrame ==
    UNCHANGED <<lockVars, ctlVars, dbVars, wpc, widx, wret, flock, nperiodic,
                fsVars, rdVars, current, interrupted, wfaults, h, dataVars,
                catVars, chainVars, stopVars, waitVars>>

\* a mutant of pg_atomic_test_set_flag: the flag is won even when it is set
pg_atomic_test_set_flag_always(lock) ==
    TRUE

\* pg_atomic_test_set_flag: true if the flag was clear; the flag is set
\* afterwards in any case
pg_atomic_test_set_flag(lock) ==
    ~lock

\* the thread goes on with the next entry of the list
Continue(t) ==
    threads' = [threads EXCEPT ![t].pc = "loop", ![t].i = @ + 1]

\* elog(ERROR) in a thread: thread_interrupted is set and the thread ends
ThreadError(t) ==
    /\ threads' = [threads EXCEPT ![t].pc = "dead"]
    /\ thread_interrupted' = TRUE

\* the thread is done with the entry: it has written to it or not
Processed(t, e, wrote) ==
    fhist' = [fhist EXCEPT ![e].processed = @ + 1,
                           ![e].writers = IF wrote THEN @ \cup {t} ELSE @]

\* the same for an entry whose file the thread has not found
Gone(t, e) ==
    fhist' = [fhist EXCEPT ![e].processed = @ + 1, ![e].writers = @ \cup {t},
                           ![e].gone = TRUE]

\* do_backup_instance: pg_atomic_clear_flag for every entry, arg->ret = 1,
\* thread_interrupted = false, pthread_create
copy_setup ==
    /\ CopyFrame /\ UNCHANGED backup_content
    /\ copy_pc = "setup"
    /\ files_list' = [e \in Entries |-> [files_list[e] EXCEPT !.lock = FALSE]]
    /\ threads' = [t \in Workers |-> [pc |-> "loop", i |-> 0, ret |-> 1]]
    /\ thread_interrupted' = FALSE
    /\ copy_pc' = "join"
    /\ UNCHANGED fhist

\* backup_files, top of the loop: pg_atomic_test_set_flag(&file->lock)
backup_files_claim(t) ==
    /\ CopyFrame /\ UNCHANGED backup_content
    /\ threads[t].pc = "loop" /\ threads[t].i < NEntries
    /\ LET e == threads[t].i + 1 IN
       /\ files_list' = [files_list EXCEPT ![e].lock = TRUE]
       /\ IF pg_atomic_test_set_flag(files_list[e].lock)
          THEN /\ threads' = [threads EXCEPT ![t].pc = "check"]
               /\ fhist' = [fhist EXCEPT ![e].winners = Append(@, t)]
          ELSE /\ Continue(t)
               /\ UNCHANGED fhist
    /\ UNCHANGED <<copy_pc, thread_interrupted>>

\* backup_files: the check for an interrupt
backup_files_check(t, intr) ==
    /\ CopyFrame /\ UNCHANGED backup_content
    /\ threads[t].pc = "check"
    /\ IF intr \/ thread_interrupted
       THEN ThreadError(t)
       ELSE /\ threads' = [threads EXCEPT ![t].pc = "stat"]
            /\ UNCHANGED thread_interrupted
    /\ UNCHANGED <<files_list, copy_pc, fhist>>

\* backup_files: fio_stat of the file. A file that is gone gets
\* write_size = FILE_NOT_FOUND, a directory or a file of another type is
\* passed over, a regular file is copied
backup_files_stat(t, st) ==
    /\ CopyFrame /\ UNCHANGED backup_content
    /\ threads[t].pc = "stat"
    /\ LET e == threads[t].i + 1 IN
       CASE st = "ENOENT" ->
                /\ files_list' = [files_list EXCEPT ![e].write_size = FILE_NOT_FOUND]
                /\ Continue(t)
                /\ Gone(t, e)
                /\ UNCHANGED thread_interrupted
         [] st = "error" ->
                /\ ThreadError(t)
                /\ UNCHANGED <<files_list, fhist>>
         [] st \in {"dir", "other"} ->
                /\ Continue(t)
                /\ Processed(t, e, FALSE)
                /\ UNCHANGED <<files_list, thread_interrupted>>
         [] st = "reg" ->
                /\ threads' = [threads EXCEPT ![t].pc = "copy"]
                /\ UNCHANGED <<files_list, fhist, thread_interrupted>>
    /\ UNCHANGED copy_pc

\* backup_files: the copy of a regular file begins: backup_data_file,
\* copy_file and copy_pgcontrol_file reset the sizes of the entry and set
\* them while they read
backup_files_copy(t, size, ok) ==
    /\ CopyFrame /\ UNCHANGED backup_content
    /\ threads[t].pc = "copy"
    /\ LET e == threads[t].i + 1 IN
       IF ok
       THEN /\ files_list' = [files_list EXCEPT ![e].read_size = size,
                                                 ![e].n_blocks = size,
                                                 ![e].write_size = 0]
            /\ threads' = [threads EXCEPT ![t].pc = "copied"]
            /\ fhist' = [fhist EXCEPT ![e].writers = @ \cup {t}]
            /\ UNCHANGED thread_interrupted
       ELSE /\ ThreadError(t)
            /\ UNCHANGED <<files_list, fhist>>
    /\ UNCHANGED copy_pc

\* backup_files: the copy ends: crc and write_size of the entry are set; a
\* file that was not copied gets write_size = BYTES_INVALID
backup_files_copied(t, copied) ==
    /\ CopyFrame /\ UNCHANGED backup_content
    /\ threads[t].pc = "copied"
    /\ LET e == threads[t].i + 1 IN
       /\ files_list' = [files_list EXCEPT
              ![e].crc = IF copied THEN 1 ELSE @,
              ![e].write_size = IF copied THEN files_list[e].read_size
                                ELSE BYTES_INVALID]
       /\ Processed(t, e, TRUE)
    /\ Continue(t)
    /\ UNCHANGED <<copy_pc, thread_interrupted>>

\* backup_files after the loop: arguments->ret = 0
backup_files_return(t) ==
    /\ CopyFrame /\ UNCHANGED backup_content
    /\ threads[t].pc = "loop" /\ threads[t].i = NEntries
    /\ threads' = [threads EXCEPT ![t].pc = "done", ![t].ret = 0]
    /\ UNCHANGED <<files_list, copy_pc, fhist, thread_interrupted>>

\* do_backup_instance: pthread_join of every thread, then "Data files are
\* transfered" or the error "Data files transferring failed"
copy_join ==
    /\ CopyFrame /\ UNCHANGED backup_content
    /\ copy_pc = "join"
    /\ \A t \in Workers : threads[t].pc \in {"done", "dead"}
    /\ copy_pc' = IF backup_isok([t \in Workers |-> threads[t].ret])
                  THEN "transfered" ELSE "failed"
    /\ UNCHANGED <<files_list, threads, fhist, thread_interrupted>>

\* a mutant of NotCopied: a file that was not copied counts as not changed
NotCopiedIsUnchanged(write_size) ==
    BYTES_INVALID

\* backup_files when backup_data_file or copy_file returns false: "disappeared
\* file not to be confused with 'not changed'"
NotCopied(write_size) ==
    IF write_size # FILE_NOT_FOUND THEN BYTES_INVALID ELSE write_size

\* backup_data_file and copy_file with missing_ok: the sizes are reset, the
\* open of the source file fails with ENOENT, write_size = FILE_NOT_FOUND and
\* the function returns false; backup_files goes on with the next entry
backup_files_missing(t) ==
    /\ CopyFrame /\ UNCHANGED backup_content
    /\ threads[t].pc = "copy"
    /\ LET e == threads[t].i + 1 IN
       /\ files_list' = [files_list EXCEPT ![e].read_size = 0,
                             ![e].write_size = NotCopied(FILE_NOT_FOUND)]
       /\ Gone(t, e)
    /\ Continue(t)
    /\ UNCHANGED <<copy_pc, thread_interrupted>>

\* write_backup_filelist: one line for every entry of the list, with the
\* write_size the entry has
FileListLines(files) ==
    [k \in 1..Len(files) |-> files[k].write_size]

\* backup_files, thread number 1 at the top of the loop, more than 10 seconds
\* after the last time: write_backup_filelist of the list as it is
backup_files_write_list(t) ==
    /\ CopyFrame
    /\ t = 1
    /\ threads[t].pc = "loop" /\ threads[t].i < NEntries
    /\ backup_content' = FileListLines(files_list)
    /\ UNCHANGED <<files_list, threads, copy_pc, fhist, thread_interrupted>>

\* parray_remove: the entries behind index i move down by one
parray_remove(array, i) ==
    SubSeq(array, 1, i) \o SubSeq(array, i + 2, Len(array))

\* do_backup_instance, "Remove disappeared during backup files from
\* backup_list": the loop over the list from index i on, with i-- after a
\* removal
RECURSIVE RemoveDisappeared(_, _)
RemoveDisappeared(array, i) ==
    IF i >= Len(array) THEN array
    ELSE IF array[i + 1].write_size = FILE_NOT_FOUND
         THEN RemoveDisappeared(parray_remove(array, i), (i - 1) + 1)
         ELSE RemoveDisappeared(array, i + 1)

\* do_backup_instance after "Data files are transfered"
do_backup_instance_remove ==
    /\ CopyFrame /\ UNCHANGED backup_content
    /\ copy_pc = "transfered"
    /\ files_list' = RemoveDisappeared(files_list, 0)
    /\ copy_pc' = "removed"
    /\ UNCHANGED <<threads, fhist, thread_interrupted>>

\* do_backup_instance, "Print the list of files to backup catalog"
do_backup_instance_write_list ==
    /\ CopyFrame
    /\ copy_pc = "removed"
    /\ backup_content' = FileListLines(files_list)
    /\ copy_pc' = "written"
    /\ UNCHANGED <<files_list, threads, fhist, thread_interrupted>>

NextCopy ==
    \/ copy_setup
    \/ \E t \in Workers :
          \/ backup_files_write_list(t)
          \/ backup_files_claim(t)
          \/ \E intr \in BOOLEAN : backup_files_check(t, intr)
          \/ \E st \in {"ENOENT", "error", "dir", "other", "reg"} :
                backup_files_stat(t, st)
          \/ \E size \in 0..1, ok \in BOOLEAN : backup_files_copy(t, size, ok)
          \/ backup_files_missing(t)
          \/ \E copied \in BOOLEAN : backup_files_copied(t, copied)
          \/ backup_files_return(t)
    \/ copy_join
    \/ do_backup_instance_remove
    \/ do_backup_instance_write_list

(***************************************************************************)
(* The end of the backup: backup.c pg_stop_backup from the result of the   *)
(* query on, and the thread that streams WAL (StreamLog, stop_streaming)   *)
(***************************************************************************)
MaxXLog == 8
MaxClock == 3
CheckpointTimeout == 10
XLOG_BLCKSZ == 4
SizeOfXLogShortPHD == 2

InvalidXLogRecPtr == 0

XLogRecPtrIsInvalid(r) == r = InvalidXLogRecPtr

\* xlogdefs.h: the offset of the LSN in its WAL page is behind the page header
XRecOffIsValid(xlrp) == xlrp % XLOG_BLCKSZ >= SizeOfXLogShortPHD

\* the LSN is the first byte of a WAL page
XRecOffIsNull(xlrp) == xlrp % XLOG_BLCKSZ = 0

\* the start LSN of the backup
StartLsn == SizeOfXLogShortPHD

\* the LSNs of the scenario
XLogPtrs == 1..MaxXLog

\* what get_last_wal_lsn can return for a WAL directory whose content is not
\* known: the LSN of a valid record from the start LSN up to the stop LSN
LastWalLsns(start_lsn, stop_lsn) ==
    {r \in XLogPtrs : r >= start_lsn /\ r <= stop_lsn /\ XRecOffIsValid(r)}

\* a mutant of StreamTimeout: the value do_backup_instance has computed
\* stays in force
StreamTimeoutKept(timeout) ==
    timeout

\* StreamLog: "Initialize timeout"
StreamTimeout(timeout) ==
    0

\* a mutant of StopLsnReached: the position has to be beyond the stop LSN
StopLsnPassed(xlogpos, lsn) ==
    xlogpos > lsn

\* stop_streaming: xlogpos >= stop_backup_lsn
StopLsnReached(xlogpos, lsn) ==
    xlogpos >= lsn

\* a mutant of WaitsForStopLsn: the stop LSN is waited for in any case
WaitsForStopLsnAlways(exists) ==
    TRUE

\* pg_stop_backup: if (!stop_lsn_exists) wait_wal_lsn(stop_backup_lsn, ...)
WaitsForStopLsn(exists) ==
    ~exists

\* pg_stop_backup before the result of the query
NoStop ==
    [pc |-> "setup", returned |-> InvalidXLogRecPtr, stop_lsn_exists |-> FALSE,
     waits |-> <<>>, last |-> InvalidXLogRecPtr, stop_lsn |-> InvalidXLogRecPtr,
     sets |-> {}]

\* the stream thread before pthread_create
NoStream ==
    [pc |-> "none", xlogpos |-> InvalidXLogRecPtr, ret |-> 0,
     read |-> InvalidXLogRecPtr, stop_stream_lsn |-> InvalidXLogRecPtr]

\* the same with and without --stream, from a primary or a replica
StopInitAny ==
    /\ stop_backup_lsn = InvalidXLogRecPtr
    /\ stream_stop_timeout = 0
    /\ stream_stop_begin = 0
    /\ clock = 1
    /\ stream_wal \in BOOLEAN
    /\ from_replica \in BOOLEAN
    /\ stream_thread = NoStream
    /\ stop = NoStop

StopInit ==
    /\ stop_backup_lsn = InvalidXLogRecPtr
    /\ stream_stop_timeout = 0
    /\ stream_stop_begin = 0
    /\ clock = 1
    /\ stream_wal = FALSE
    /\ from_replica = FALSE
    /\ stream_thread = NoStream
    /\ stop = NoStop

StopFrame ==
    UNCHANGED <<lockVars, sessVars, dataVars, catVars, chainVars, copyVars,
                waitVars>>

\* elog(ERROR) in the main thread
StopError ==
    stop' = [stop EXCEPT !.pc = "error"]

\* elog(ERROR) in the stream thread: stream_thread_arg.ret stays 1
StreamError(why) ==
    stream_thread' = [stream_thread EXCEPT !.pc = why]

\* do_backup_instance: stream_stop_timeout = checkpoint_timeout * 1.1,
\* stream_thread_arg.ret = 1, pthread_create; without --stream nothing
stream_setup ==
    /\ StopFrame
    /\ stop.pc = "setup"
    /\ IF stream_wal
       THEN /\ stream_stop_timeout' = CheckpointTimeout + CheckpointTimeout \div 10
            /\ stream_thread' = [stream_thread EXCEPT !.pc = "start", !.ret = 1]
       ELSE UNCHANGED <<stream_stop_timeout, stream_thread>>
    /\ stop' = [stop EXCEPT !.pc = "query"]
    /\ UNCHANGED <<stop_backup_lsn, stream_stop_begin, clock, stream_wal,
                   from_replica>>

\* pg_stop_backup: the result of the query, stop_backup_lsn is set to the LSN
\* it returns
stop_result(lsn, ok) ==
    /\ StopFrame
    /\ stop.pc = "query"
    /\ IF ok
       THEN /\ stop_backup_lsn' = lsn
            /\ stop' = [stop EXCEPT !.pc = "check", !.returned = lsn,
                                    !.sets = @ \cup {lsn}]
       ELSE /\ StopError
            /\ UNCHANGED stop_backup_lsn
    /\ UNCHANGED <<stream_stop_timeout, stream_stop_begin, clock, stream_wal,
                   from_replica, stream_thread>>

\* pg_stop_backup: the offset of the returned LSN. At the start of a page:
\* wait_wal_lsn for the previous segment; inside the page header: an error
stop_check(ok) ==
    /\ StopFrame
    /\ stop.pc = "check"
    /\ IF XRecOffIsValid(stop_backup_lsn)
       THEN stop' = [stop EXCEPT !.pc = "label"]
       ELSE IF XRecOffIsNull(stop_backup_lsn) /\ ok
            THEN stop' = [stop EXCEPT
                     !.pc = "last",
                     !.waits = Append(@, [lsn |-> stop_backup_lsn,
                                          wait_prev_segment |-> TRUE])]
            ELSE StopError
    /\ UNCHANGED <<stop_backup_lsn, stream_stop_timeout, stream_stop_begin,
                   clock, stream_wal, from_replica, stream_thread>>

\* pg_stop_backup: stop_backup_lsn = get_last_wal_lsn(...), and
\* stop_lsn_exists = true
stop_last_lsn(lsn) ==
    /\ StopFrame
    /\ stop.pc = "last"
    /\ lsn \in LastWalLsns(StartLsn, stop_backup_lsn)
    /\ stop_backup_lsn' = lsn
    /\ stop' = [stop EXCEPT !.pc = "label", !.last = lsn,
                            !.stop_lsn_exists = TRUE, !.sets = @ \cup {lsn}]
    /\ UNCHANGED <<stream_stop_timeout, stream_stop_begin, clock, stream_wal,
                   from_replica, stream_thread>>

\* pg_stop_backup: backup_label and tablespace_map are written, then
\* pthread_join of the stream thread and "WAL streaming failed"
stop_join(ok) ==
    /\ StopFrame
    /\ stop.pc = "label"
    /\ stream_wal => stream_thread.pc \in {"done", "interrupted", "timeout", "failed"}
    /\ IF ok /\ (stream_wal => stream_thread.ret # 1)
       THEN stop' = [stop EXCEPT !.pc = "fill"]
       ELSE StopError
    /\ UNCHANGED <<stop_backup_lsn, stream_stop_timeout, stream_stop_begin,
                   clock, stream_wal, from_replica, stream_thread>>

\* pg_stop_backup: the wait for the stop LSN unless stop_lsn_exists; what
\* wait_wal_lsn returns becomes stop_backup_lsn, and then backup->stop_lsn
stop_fill(res, ok) ==
    /\ StopFrame
    /\ stop.pc = "fill"
    /\ IF WaitsForStopLsn(stop.stop_lsn_exists)
       THEN /\ res \in {stop_backup_lsn}
                         \cup IF from_replica
                              THEN LastWalLsns(StartLsn, stop_backup_lsn)
                              ELSE {}
            /\ IF ok
               THEN /\ stop_backup_lsn' = res
                    /\ stop' = [stop EXCEPT
                          !.pc = "done", !.stop_lsn = res,
                          !.sets = @ \cup {res},
                          !.waits = Append(@, [lsn |-> stop_backup_lsn,
                                               wait_prev_segment |-> FALSE])]
               ELSE /\ StopError
                    /\ UNCHANGED stop_backup_lsn
       ELSE /\ res = stop_backup_lsn /\ ok
            /\ stop' = [stop EXCEPT !.pc = "done", !.stop_lsn = stop_backup_lsn]
            /\ UNCHANGED stop_backup_lsn
    /\ UNCHANGED <<stream_stop_timeout, stream_stop_begin, clock, stream_wal,
                   from_replica, stream_thread>>

\* StreamLog up to ReceiveXlogStream: the timeout and its start are reset
StreamLog ==
    /\ StopFrame
    /\ stream_thread.pc = "start"
    /\ stream_stop_timeout' = StreamTimeout(stream_stop_timeout)
    /\ stream_stop_begin' = 0
    /\ stream_thread' = [stream_thread EXCEPT !.pc = "streaming",
                                               !.xlogpos = StartLsn]
    /\ UNCHANGED <<stop_backup_lsn, clock, stream_wal, from_replica, stop>>

\* ReceiveXlogStream calls stop_streaming at the position it has reached, or
\* fails; stop_streaming checks for an interrupt and reads stop_backup_lsn
stop_streaming(xlogpos, intr, ok) ==
    /\ StopFrame
    /\ stream_thread.pc = "streaming"
    /\ xlogpos >= stream_thread.xlogpos
    /\ IF ~ok
       THEN StreamError("failed")
       ELSE IF intr
            THEN StreamError("interrupted")
            ELSE stream_thread' = [stream_thread EXCEPT
                     !.xlogpos = xlogpos,
                     !.read = stop_backup_lsn,
                     !.pc = IF XLogRecPtrIsInvalid(stop_backup_lsn)
                            THEN "streaming" ELSE "compare"]
    /\ UNCHANGED <<stop_backup_lsn, stream_stop_timeout, stream_stop_begin,
                   clock, stream_wal, from_replica, stop>>

\* stop_streaming with stop_backup_lsn set: the position is compared with
\* it, read again or not; below it the timeout is started and checked
stop_streaming_compare(lsn) ==
    /\ StopFrame
    /\ stream_thread.pc = "compare"
    /\ lsn \in {stream_thread.read, stop_backup_lsn}
    /\ IF StopLsnReached(stream_thread.xlogpos, lsn)
       THEN /\ stream_thread' = [stream_thread EXCEPT
                  !.pc = "finish", !.read = lsn,
                  !.stop_stream_lsn = stream_thread.xlogpos]
            /\ UNCHANGED stream_stop_begin
       ELSE LET begin == IF stream_stop_begin = 0 THEN clock
                         ELSE stream_stop_begin IN
            /\ stream_stop_begin' = begin
            /\ stream_thread' = [stream_thread EXCEPT
                  !.read = lsn,
                  !.pc = IF clock - begin > stream_stop_timeout
                         THEN "timeout" ELSE "streaming"]
    /\ UNCHANGED <<stop_backup_lsn, stream_stop_timeout, clock, stream_wal,
                   from_replica, stop>>

\* StreamLog after ReceiveXlogStream has returned true: ret = 0
StreamLog_finish(ok) ==
    /\ StopFrame
    /\ stream_thread.pc = "finish"
    /\ IF ok
       THEN stream_thread' = [stream_thread EXCEPT !.pc = "done", !.ret = 0]
       ELSE StreamError("failed")
    /\ UNCHANGED <<stop_backup_lsn, stream_stop_timeout, stream_stop_begin,
                   clock, stream_wal, from_replica, stop>>

\* a second passes
Tick ==
    /\ StopFrame
    /\ clock < MaxClock
    /\ clock' = clock + 1
    /\ UNCHANGED <<stop_backup_lsn, stream_stop_timeout, stream_stop_begin,
                   stream_wal, from_replica, stream_thread, stop>>

NextStop ==
    \/ stream_setup
    \/ \E lsn \in XLogPtrs, ok \in BOOLEAN : stop_result(lsn, ok)
    \/ \E ok \in BOOLEAN : stop_check(ok)
    \/ \E lsn \in XLogPtrs : stop_last_lsn(lsn)
    \/ \E ok \in BOOLEAN : stop_join(ok)
    \/ \E res \in XLogPtrs, ok \in BOOLEAN : stop_fill(res, ok)
    \/ StreamLog
    \/ \E xlogpos \in XLogPtrs, intr \in BOOLEAN, ok \in BOOLEAN :
          stop_streaming(xlogpos, intr, ok)
    \/ \E lsn \in XLogPtrs : stop_streaming_compare(lsn)
    \/ \E ok \in BOOLEAN : StreamLog_finish(ok)
    \/ Tick

(***************************************************************************)
(* backup.c wait_wal_lsn: the wait for a WAL segment and for an LSN in it  *)
(***************************************************************************)
ArchiveTimeout == 4

\* the awaited segment in the WAL directory, what wal_contains_lsn finds for
\* the target, what get_last_wal_lsn finds before it
WalStates(lsn) ==
    [segment : {"none", "plain", "gz"},
     contains_lsn : BOOLEAN,
     last_lsn : {InvalidXLogRecPtr} \cup LastWalLsns(StartLsn, lsn)]

\* the arguments of wait_wal_lsn and the settings it reads
WaitCalls ==
    [lsn : {r \in XLogPtrs : r > XLOG_BLCKSZ /\ XRecOffIsValid(r)},
     wait_prev_segment : BOOLEAN,
     exclusive_backup : BOOLEAN,
     from_replica : BOOLEAN]

\* wait_wal_lsn at its loop
WaitStart(c) ==
    [pc |-> "look", lsn |-> c.lsn, wait_prev_segment |-> c.wait_prev_segment,
     exclusive_backup |-> c.exclusive_backup, from_replica |-> c.from_replica,
     timeout |-> ArchiveTimeout, file_exists |-> FALSE, try_count |-> 0,
     result |-> InvalidXLogRecPtr, prior |-> FALSE, error |-> "none"]

\* no call of wait_wal_lsn
NoWait == [pc |-> "none"]

WaitInit ==
    /\ wait = NoWait
    /\ wal = [segment |-> "none", contains_lsn |-> FALSE,
              last_lsn |-> InvalidXLogRecPtr]

WaitInitAny ==
    /\ wait \in {WaitStart(c) : c \in WaitCalls}
    /\ wal \in WalStates(wait.lsn)

WaitFrame ==
    UNCHANGED <<lockVars, sessVars, dataVars, catVars, chainVars, copyVars,
                stopVars>>

\* a mutant of UsesPriorLsn: the prior LSN is taken on a primary too
UsesPriorLsnAnywhere(exclusive, replica, try_count, timeout) ==
    try_count > timeout \div 4

\* wait_wal_lsn: "try to get LSN of last valid record prior to the target
\* LSN. But only in case of a backup from a replica"
UsesPriorLsn(exclusive, replica, try_count, timeout) ==
    ~exclusive /\ replica /\ try_count > timeout \div 4

\* a mutant of TimedOut: the wait ends one poll early
TimedOutEarly(try_count, timeout) ==
    timeout > 0 /\ try_count >= timeout

\* wait_wal_lsn: if (timeout > 0 && try_count > timeout)
TimedOut(try_count, timeout) ==
    timeout > 0 /\ try_count > timeout

\* fileExists of the segment, then of the compressed segment
fileExists(segment) ==
    segment \in {"plain", "gz"}

\* wait_wal_lsn returns
WaitReturn(w, r, prior) ==
    [w EXCEPT !.pc = "returned", !.result = r, !.prior = prior]

\* the loop of wait_wal_lsn up to sleep(1): the segment is looked for until
\* it has been seen once, then the LSN is looked for in it
wait_wal_lsn_look ==
    /\ WaitFrame
    /\ wait.pc = "look"
    /\ LET file_exists == wait.file_exists \/ fileExists(wal.segment)
           w == [wait EXCEPT !.file_exists = file_exists] IN
       wait' = IF ~file_exists THEN [w EXCEPT !.pc = "sleep"]
               ELSE IF wait.wait_prev_segment
               THEN WaitReturn(w, InvalidXLogRecPtr, FALSE)
               ELSE IF wal.contains_lsn
               THEN WaitReturn(w, wait.lsn, FALSE)
               ELSE IF /\ UsesPriorLsn(wait.exclusive_backup, wait.from_replica,
                                       wait.try_count, wait.timeout)
                       /\ ~XLogRecPtrIsInvalid(wal.last_lsn)
               THEN WaitReturn(w, wal.last_lsn, TRUE)
               ELSE [w EXCEPT !.pc = "sleep"]
    /\ UNCHANGED wal

\* the loop of wait_wal_lsn from sleep(1) on: the interrupt, try_count, the
\* timeout with one of its two messages
wait_wal_lsn_sleep(intr) ==
    /\ WaitFrame
    /\ wait.pc = "sleep"
    /\ wait' = IF intr
               THEN [wait EXCEPT !.pc = "error", !.error = "interrupted"]
               ELSE IF TimedOut(wait.try_count + 1, wait.timeout)
               THEN [wait EXCEPT
                        !.pc = "error", !.try_count = @ + 1,
                        !.error = IF wait.file_exists THEN "lsn_not_archived"
                                  ELSE "segment_not_archived"]
               ELSE [wait EXCEPT !.pc = "look", !.try_count = @ + 1]
    /\ UNCHANGED wal

\* the archiver, the stream or anybody else changes the WAL directory
wal_change(to) ==
    /\ WaitFrame
    /\ wait.pc \in {"look", "sleep"}
    /\ to \in WalStates(wait.lsn)
    /\ wal' = to
    /\ UNCHANGED wait

WaitSteps ==
    wait_wal_lsn_look \/ \E intr \in BOOLEAN : wait_wal_lsn_sleep(intr)

NextWait ==
    \/ wait_wal_lsn_look
    \/ \E intr \in BOOLEAN : wait_wal_lsn_sleep(intr)
    \/ \E lsn \in XLogPtrs : \E to \in WalStates(lsn) : wal_change(to)

AuxInit == CopyInit /\ StopInit /\ WaitInit

\* the state after construction; catalog writes do not fail
Init ==
    LockInit /\ SessInit(FALSE) /\ DataInit /\ CatInit /\ call = NoCall
    /\ AuxInit

\* the same state in an environment where catalog writes may fail
InitFaults ==
    LockInit /\ SessInit(TRUE) /\ DataInit /\ CatInit /\ call = NoCall
    /\ AuxInit

Spec == Init /\ [][NextSession]_vars

SpecFaults == InitFaults /\ [][NextSession]_vars

(***************************************************************************)
(* Claims about the backup session                                         *)
(***************************************************************************)

\* C2: a reader of backup.control that runs concurrently with write_backup
\* (by the main thread, by the lead worker or by the exit cleanup) reads a
\* content that was renamed onto the path as a whole: never a partial or a
\* truncated file.  Checked under SpecFaults.
C2_ReaderSeesComplete ==
    rpc = "got" => rbuf \in installed

\* C2 witness: the reader has read the prior content while the lead worker
\* has a different, new content in the temporary file, not yet renamed
C2_Witness ==
    /\ rpc = "got" /\ rbuf \in installed
    /\ wpc[1] = "write_close"
    /\ inode[wfd[1]] # rbuf

\* C3: after the process of a session has exited, the control file on disk
\* does not show status RUNNING (stated for the exits in which the write of
\* the exit cleanup itself did not fail).  Checked under SpecFaults.
C3_NoRunningAfterExit ==
    (mpc = "exited" /\ ~h.cleanup_write_failed) => DiskStatus # "RUNNING"

ControlPathTemp == PathTemp(ControlPath)

\* write_backup has raised an error in thread t in this step
WriteErrorRaised(t) ==
    IF t # 0 THEN wpc'[t] = "dead" /\ thread_interrupted'
    ELSE IF in_cleanup THEN h'.cleanup_write_failed /\ mpc' = wcont
    ELSE mpc' = "exit" /\ h'.abnormal

\* C34: when write_backup fails at fio_fflush, fio_fclose or fio_rename of
\* the temporary file, the step leaves no file at the path of the temporary
\* file, raises an error in the calling thread, and leaves backup.control
\* with the inode and the content it had.  Checked under SpecFaults.
C34_FailedWriteKeepsControl ==
    [][\A t \in Writers :
          (Pos(t) = "write_close" /\ h'.write_failed # h.write_failed
              /\ t \in h'.write_failed)
          => /\ fs'[ControlPathTemp] = 0
             /\ WriteErrorRaised(t)
             /\ fs'[ControlPath] = fs[ControlPath]
             /\ fs[ControlPath] # 0
                   => inode'[fs[ControlPath]] = inode[fs[ControlPath]]]_vars

\* C34 witness: the write of status DONE has failed behind the open of the
\* temporary file: the process exits, the temporary file is gone and
\* backup.control shows the status RUNNING it had
C34_Witness ==
    /\ h.write_failed = {0}
    /\ mpc = "exit" /\ ~h.cleanup_write_failed
    /\ current.status = "DONE"
    /\ fs[ControlPathTemp] = 0
    /\ DiskStatus = "RUNNING"

\* C6: the status on disk moves only NONE -> RUNNING -> DONE -> (OK | ERROR)
\* or RUNNING -> ERROR, and it becomes DONE only after the workers were
\* joined, stop-of-backup returned its result, the wait for the stop LSN
\* ended and the final file list was written.
C6_StatusProgression ==
    [][/\ (DiskStatus' # DiskStatus)
            => <<DiskStatus, DiskStatus'>> \in
                  {<<"NONE", "RUNNING">>, <<"RUNNING", "DONE">>,
                   <<"RUNNING", "ERROR">>, <<"DONE", "OK">>,
                   <<"DONE", "ERROR">>}
       /\ (DiskStatus' = "DONE" /\ DiskStatus # "DONE")
            => (h.joined /\ h.stop_result /\ h.stop_lsn /\ h.final_list)]_vars

\* C6 witness: a session went through RUNNING and DONE and ended OK
C6_Witness ==
    mpc = "exited" /\ DiskStatus = "OK" /\ h.final_list

\* C7: once the workers are joined with the result flag of one of them not
\* zero, status DONE is never written and the backup of the exited session
\* has status ERROR.
C7_FailedWorkerFailsSession ==
    (h.joined /\ \E t \in Workers : wret[t] # 0)
    => /\ \A c \in installed : ControlValue(c, "status") # "DONE"
       /\ (mpc = "exited" => DiskStatus = "ERROR" /\ DiskEndTime # "")

\* C7 witness: a session with a failed worker has exited
C7_Witness ==
    /\ mpc = "exited" /\ h.joined
    /\ \E t \in Workers : wret[t] = 1
    /\ \E t \in Workers : wret[t] = 0
    /\ DiskStatus = "ERROR"

(***************************************************************************)
(* Claims about the lock protocol (checked under SpecLock)                 *)
(***************************************************************************)

NextLock ==
    \E p \in Procs :
        \/ \E b \in Backups : LockCall(p, b)
        \/ LockCreate(p)
        \/ LockRead(p)
        \/ LockProbe(p)
        \/ LockUnlink(p)
        \/ \E ok \in BOOLEAN : LockFill(p, ok)
        \/ ProcExit(p)
        \/ ProcAtexit(p)
        \/ ProcKill(p)

SpecLock == Init /\ [][NextLock]_vars

(***************************************************************************)
(* lock_backup of process 1 against anything the other processes do to the *)
(* lockfile, in a directory that may not be writable                       *)
(***************************************************************************)
Caller == CHOOSE p \in Procs : \A q \in Procs : p <= q

NextLockRetry ==
    \/ \E b \in Backups : LockCall(Caller, b)
    \/ LockCreate(Caller)
    \/ LockCreateDenied(Caller)
    \/ LockRead(Caller)
    \/ LockProbe(Caller)
    \/ LockUnlink(Caller)
    \/ LockUnlinkDenied(Caller)
    \/ \E ok \in BOOLEAN : LockFill(Caller, ok)
    \/ ProcAtexit(Caller)
    \/ \E q \in Procs \ {Caller}, b \in Backups :
          \E f \in {NoFile, NewFile(q), [owner |-> q, pid |-> MyPid(q)]} :
              OtherProcess(q, b, f)
    \/ \E q \in Procs \ {Caller} : ProcKill(q)

SpecLockRetry == Init /\ [][NextLockRetry]_vars

\* C30 as stated: lock_backup makes at most 100 attempts to create the
\* lockfile: the attempt made in round ntries of the loop is attempt
\* number ntries + 1.
C30_AtMost100Attempts ==
    [][(lpc[Caller] = "create" /\ lpc'[Caller] # "create")
           => ntries[Caller] + 1 <= LockMaxTries]_vars

\* what the loop does keep: no round after the one in which ntries exceeds
\* LockMaxTries, so LockMaxTries + 2 attempts at most
C30_AttemptsBounded ==
    /\ ntries[Caller] <= LockMaxTries + 1
    /\ [][(lpc[Caller] = "create" /\ ntries[Caller] > LockMaxTries
              /\ lpc'[Caller] # "create")
             => lpc'[Caller] \in {"fill", "atexit"}]_vars

\* the caller gave up in round LockMaxTries + 1 of the loop
C30_GaveUp ==
    lpc[Caller] = "atexit" /\ lresult[Caller] = "error"

(***************************************************************************)
(* lock_backup calls that no other process disturbs: a process takes a     *)
(* step only while every other process is outside lock_backup and outside  *)
(* its exit hook                                                           *)
(***************************************************************************)
Quiet(p) == \A q \in Procs \ {p} : lpc[q] \in {"idle", "exited", "killed"}

NextLockAlone ==
    \E p \in Procs :
        /\ Quiet(p)
        /\ \/ \E b \in Backups : LockCall(p, b)
           \/ LockCreate(p)
           \/ LockRead(p)
           \/ LockProbe(p)
           \/ LockUnlink(p)
           \/ \E ok \in BOOLEAN : LockFill(p, ok)
           \/ ProcExit(p)
           \/ ProcAtexit(p)
           \/ ProcKill(p)

SpecLockAlone == Init /\ [][NextLockAlone]_vars

\* the PID that p read last is its own or that of a process that is gone
ReadStale(p) ==
    \/ encoded_pid[p] = MyPid(p)
    \/ encoded_pid[p] \in Procs /\ ~palive[encoded_pid[p]]

Unrelated(p, q) ==
    p # q /\ MyParentPid(p) # MyPid(q) /\ MyParentPid(q) # MyPid(p)

\* the process has not been killed and has not begun to exit
Running(p) == palive[p] /\ lpc[p] \notin {"atexit", "exited", "killed"}

\* lock_backup of backup b has returned true to the process, which runs on
HoldsLock(p, b) ==
    Running(p) /\ \E k \in DOMAIN lock_files[p] : lock_files[p][k] = b

\* C35 as claimed: of two running processes, neither the parent of the other,
\* at most one has got true from lock_backup for the same backup, and no
\* lock_backup call unlinks a lockfile that such a running competitor has
\* created.  Checked under SpecLock.
C35_MutualExclusion ==
    /\ [](\A b \in Backups, p \in Procs, q \in Procs :
             Unrelated(p, q) => ~(HoldsLock(p, b) /\ HoldsLock(q, b)))
    /\ [][\A p \in Procs, q \in Procs :
             (/\ Unrelated(p, q) /\ Running(q)
              /\ lpc[p] = "unlink" /\ lpc'[p] # "unlink"
              /\ lockfile[ltarget[p]].owner = q)
             => lockfile'[ltarget[p]] = lockfile[ltarget[p]]]_vars

\* what lock_backup does keep against a competitor: C1_BusyReturnsFalse, for
\* the calls during which the lockfile holds the PID of a live process
\* throughout.  The race needs a lockfile whose owner is gone: here p has
\* read the PID of the killed process d and has probed it, q has done the
\* same, has unlinked the stale lockfile, created its own and returned true,
\* and p is about to unlink what it takes for the stale lockfile.
C35_StaleRace ==
    \E b \in Backups, p \in Procs, q \in Procs, d \in Procs :
        /\ Unrelated(p, q) /\ d \notin {p, q, MyParentPid(p), MyParentPid(q)}
        /\ ~palive[d] /\ lpc[d] = "killed"
        /\ lpc[p] = "unlink" /\ ltarget[p] = b /\ encoded_pid[p] = d
        /\ HoldsLock(q, b) /\ lresult[q] = "true" /\ lpc[q] = "idle"
        /\ lockfile[b] = [owner |-> q, pid |-> MyPid(q)]

\* lock_backup has raised an error in process p in this step
LockErrorRaised(p) ==
    InCall(p) /\ lpc'[p] = "atexit" /\ lresult'[p] = "error"

\* C36 as claimed: lock_backup raises an error only where an operation on
\* the file system has failed for a reason of its own, which in SpecLock is
\* the write of the PID into the lockfile the caller has created (LockFill);
\* a call that meets only the steps of other processes returns true or
\* false.  Checked under SpecLock, where the directory is writable and no
\* call goes round the loop more than LockMaxTries times.
C36_ErrorsOnlyFromIO ==
    [][\A p \in Procs : LockErrorRaised(p) => lpc[p] = "fill"]_vars

\* the errors that the steps of a competitor alone bring about: the read of
\* a lockfile that the competitor has created and not yet filled ("Lock file
\* is empty"), and the unlink of a lockfile that the competitor has removed
\* ("Could not remove old lock file"); every other error of lock_backup in
\* SpecLock comes from the write of the PID
C36_ErrorsOfTheRace ==
    [][\A p \in Procs :
          LockErrorRaised(p)
          => \/ lpc[p] = "fill"
             \/ lpc[p] = "read" /\ lockfile[ltarget[p]].pid = 0
                   /\ lockfile[ltarget[p]].owner # p
             \/ lpc[p] = "unlink" /\ lockfile[ltarget[p]] = NoFile]_vars

(***************************************************************************)
(* Data-file engine: data.c                                                *)
(*                                                                         *)
(* A page is a sequence of BLCKSZ cells <<pd_lsn, header, payload...>>:    *)
(* header 1 stands for header fields that pass parse_page.  A file in a    *)
(* backup is the flat sequence of cells backup_data_file wrote: for each   *)
(* page a BackupPageHeader and the stored bytes.  Checksums are disabled   *)
(* (checksum_version = 0), files are local.                                *)
(***************************************************************************)
CompressAlgs == {"none", "zlib", "pglz"}

Zeros(n) == [i \in 1..n |-> 0]

ZeroPage == Zeros(BLCKSZ)

\* payloads the database writes: empty, and used except for the last byte
Payloads ==
    LET n == BLCKSZ - 2
    IN  {Zeros(n), [i \in 1..n |-> IF i < n THEN 1 ELSE 0]}

NewPage(lsn, payload) == <<lsn, 1>> \o payload

\* a partly flushed page: not zeroed, header not valid
TornPage == [i \in 1..BLCKSZ |-> IF i = BLCKSZ THEN 1 ELSE 0]

MAXALIGN(LEN) ==
    ((LEN + MAXIMUM_ALIGNOF - 1) \div MAXIMUM_ALIGNOF) * MAXIMUM_ALIGNOF

\* BackupPageHeader
Header(block, compressed_size) == <<block, compressed_size>>

HeaderSize == Len(Header(0, 0))

\* The codec standing for compress2 / pglz_compress: the number of trailing
\* zero cells, then the cells before them.
Deflate(src) ==
    LET used == {i \in 1..Len(src) : src[i] # 0}
        last == IF used = {} THEN 0
                ELSE CHOOSE m \in used : \A i \in used : i <= m
    IN  <<Len(src) - last>> \o SubSeq(src, 1, last)

\* ... and for uncompress / pglz_decompress
Inflate(src) == SubSeq(src, 2, Len(src)) \o Zeros(src[1])

\* compress2 fails with Z_BUF_ERROR when the result does not fit into dst
zlib_compress(dst_size, src) ==
    LET z == Deflate(src)
    IN  IF Len(z) <= dst_size THEN [size |-> Len(z), data |-> z]
        ELSE [size |-> Z_BUF_ERROR, data |-> <<>>]

\* PGLZ_strategy_always: fails unless the result is smaller than the source
pglz_compress(src) ==
    LET z == Deflate(src)
    IN  IF Len(z) < Len(src) THEN [size |-> Len(z), data |-> z]
        ELSE [size |-> -1, data |-> <<>>]

do_compress(dst_size, src, alg) ==
    CASE alg = "zlib" -> zlib_compress(dst_size, src)
      [] alg = "pglz" -> pglz_compress(src)
      [] OTHER -> [size |-> -1, data |-> <<>>]

do_decompress(dst_size, src, src_size, alg) ==
    IF alg \in {"zlib", "pglz"} /\ src_size >= 1 /\ src_size <= Len(src)
    THEN LET page == Inflate(SubSeq(src, 1, src_size))
         IN  IF Len(page) <= dst_size THEN [size |-> Len(page), data |-> page]
             ELSE [size |-> -1, data |-> <<>>]
    ELSE [size |-> -1, data |-> <<>>]

parse_page(page) == [lsn |-> page[1], valid |-> page[2] = 1]

page_may_be_compressed(page, alg, backup_version) ==
    IF ~parse_page(page).valid
    THEN IF backup_version >= FixedVersion THEN FALSE
         ELSE IF alg = "zlib" /\ page[1] # ZLIB_MAGIC THEN FALSE
         ELSE TRUE
    ELSE FALSE

\* result 0: not found, 1: found and valid, -1: found but invalid.  in is the
\* file as the reads see it: the first in.torn_reads reads of block
\* in.torn_block find the page partly flushed.
read_page_from_file(in, blknum, attempt) ==
    IF blknum >= Len(in.pages)
    THEN [result |-> 0, page |-> <<>>, page_lsn |-> 0]
    ELSE LET page == IF blknum = in.torn_block /\ attempt <= in.torn_reads
                     THEN TornPage
                     ELSE in.pages[blknum + 1]
             hdr == parse_page(page)
         IN  IF ~hdr.valid /\ page # ZeroPage
             THEN [result |-> -1, page |-> page, page_lsn |-> hdr.lsn]
             ELSE [result |-> 1, page |-> page, page_lsn |-> hdr.lsn]

\* a file that no read finds partly flushed
Stable(pages) == [pages |-> pages, torn_block |-> 0, torn_reads |-> 0]

\* the connection of a worker: whether the database has the change-tracking
\* extension, and the relation as the database holds it
NoPtrack == [is_ptrack_support |-> FALSE, buffers |-> <<>>]

\* NULL (found = FALSE) for a block the relation no longer has
pg_ptrack_get_block(arguments, blknum) ==
    IF blknum < Len(arguments.buffers)
    THEN [found |-> TRUE, page |-> arguments.buffers[blknum + 1]]
    ELSE [found |-> FALSE, page |-> <<>>]

\* the DELTA filter without its test for nullified pages
DeltaSkipsOlderPages(backup_mode, exists_in_prev, page_is_truncated, page_lsn, prev_backup_start_lsn) ==
    /\ backup_mode = "DELTA"
    /\ exists_in_prev
    /\ ~page_is_truncated
    /\ page_lsn < prev_backup_start_lsn

\* the DELTA filter without its test for files new since the parent backup
DeltaSkipsInNewFiles(backup_mode, exists_in_prev, page_is_truncated, page_lsn, prev_backup_start_lsn) ==
    /\ backup_mode = "DELTA"
    /\ ~page_is_truncated
    /\ page_lsn # 0
    /\ page_lsn < prev_backup_start_lsn

\* "Nullified pages must be copied by DELTA backup, just to be safe"
DeltaSkipsPage(backup_mode, exists_in_prev, page_is_truncated, page_lsn, prev_backup_start_lsn) ==
    /\ backup_mode = "DELTA"
    /\ exists_in_prev
    /\ ~page_is_truncated
    /\ page_lsn # 0
    /\ page_lsn < prev_backup_start_lsn

\* before the first read: page_is_valid = false, page_lsn = 0
NotRead == [result |-> -1, page |-> <<>>, page_lsn |-> 0, reads |-> 0]

\* a loop that gives every invalid read another attempt
RECURSIVE ReadPageAlways(_, _, _, _, _)
ReadPageAlways(in, blknum, tries, give_up, r) ==
    IF r.result # -1 \/ tries = 0
    THEN r
    ELSE ReadPageAlways(in, blknum, tries - 1, give_up,
                        [reads |-> r.reads + 1]
                            @@ read_page_from_file(in, blknum, r.reads + 1))

\* while (!page_is_valid && try_again), with its break for a backup of a
\* database that has ptrack (give_up)
RECURSIVE ReadPage(_, _, _, _, _)
ReadPage(in, blknum, tries, give_up, r) ==
    IF r.result # -1 \/ tries = 0 \/ (give_up /\ r.reads > 0)
    THEN r
    ELSE ReadPage(in, blknum, tries - 1, give_up,
                  [reads |-> r.reads + 1]
                      @@ read_page_from_file(in, blknum, r.reads + 1))

\* state is the value returned; reads counts the calls of
\* read_page_from_file; page is the buffer when the content was retrieved
prepare_page(arguments, in, f, prev_backup_start_lsn, blknum, backup_mode, strict) ==
    LET Result(error, state, page, reads) ==
            [error |-> error, state |-> state, page |-> page, reads |-> reads]
        filter(page_is_truncated, page, page_lsn, reads) ==
            IF DeltaSkipsPage(backup_mode, f.exists_in_prev, page_is_truncated,
                              page_lsn, prev_backup_start_lsn)
            THEN Result(FALSE, SkipCurrentPage, page, reads)
            ELSE IF page_is_truncated
            THEN Result(FALSE, PageIsTruncated, page, reads)
            ELSE Result(FALSE, 0, page, reads)
        fetch(r, ptrack_page) ==
            IF ~ptrack_page.found
            THEN filter(TRUE, r.page, r.page_lsn, r.reads)
            ELSE IF /\ backup_mode = "DELTA"
                    /\ f.exists_in_prev
                    /\ ~parse_page(ptrack_page.page).valid
            THEN Result(TRUE, 0, ptrack_page.page, r.reads)
            ELSE filter(FALSE, ptrack_page.page,
                        IF backup_mode = "DELTA" /\ f.exists_in_prev
                        THEN parse_page(ptrack_page.page).lsn
                        ELSE r.page_lsn,
                        r.reads)
        decide(r) ==
            IF r.result = -1 /\ strict /\ ~arguments.is_ptrack_support
            THEN Result(TRUE, 0, r.page, r.reads)
            ELSE IF ~strict
            THEN Result(FALSE, IF r.result = -1 THEN PageIsCorrupted ELSE 0,
                        r.page, r.reads)
            ELSE IF \/ backup_mode = "PTRACK"
                    \/ r.result = -1 /\ arguments.is_ptrack_support
            THEN fetch(r, pg_ptrack_get_block(arguments, blknum))
            ELSE filter(r.result = 0, r.page, r.page_lsn, r.reads)
    IN  decide(IF backup_mode # "PTRACK"
               THEN ReadPage(in, blknum, try_again,
                             arguments.is_ptrack_support /\ strict, NotRead)
               ELSE NotRead)

\* a page whose compressed form may take the whole block
StoredCompressedUpToBlock(compressed_size) ==
    compressed_size > 0 /\ compressed_size <= BLCKSZ

\* "The page was successfully compressed."
StoredCompressed(compressed_size) ==
    compressed_size > 0 /\ compressed_size < BLCKSZ

\* pg_crc32 of a file: one step per byte
CrcStep(crc, byte) == (crc * 3 + byte + 1) % CrcMod

RECURSIVE CrcFold(_, _, _)
CrcFold(crc, buf, len) ==
    IF len = 0 THEN crc
    ELSE CrcStep(CrcFold(crc, buf, len - 1), buf[len])

INIT_FILE_CRC32 == CrcMod - 1

\* a checksum of the page headers alone
COMP_FILE_CRC32_header(crc, write_buffer) ==
    CrcFold(crc, write_buffer, HeaderSize)

COMP_FILE_CRC32(crc, write_buffer) ==
    CrcFold(crc, write_buffer, Len(write_buffer))

FIN_FILE_CRC32(crc) == (CrcMod - 1) - crc

\* pad: the bytes of write_buffer between the compressed page and its
\* MAXALIGNed end, which nothing initialises
compress_and_backup_page(f, out, blknum, page_state, page, calg, pad) ==
    LET written(g, write_buffer) ==
            [file |-> [g EXCEPT !.crc = COMP_FILE_CRC32(@, write_buffer),
                                !.write_size = @ + Len(write_buffer)],
             out |-> out \o write_buffer]
        compressed(c) ==
            IF StoredCompressed(c.size)
            THEN Header(blknum, c.size) \o c.data
                     \o [i \in 1..(MAXALIGN(c.size) - c.size) |-> pad]
            ELSE Header(blknum, BLCKSZ) \o page
    IN  IF page_state = SkipCurrentPage
        THEN [file |-> f, out |-> out]
        ELSE IF page_state = PageIsTruncated
        THEN written(f, Header(blknum, page_state))
        ELSE written([f EXCEPT !.compress_alg = calg, !.read_size = @ + BLCKSZ],
                     compressed(do_compress(2 * BLCKSZ, page, calg)))

\* a scan that goes on behind a truncated block
ScanNeverStops(page_state) == FALSE

\* if (page_state == PageIsTruncated) break;
ScanStops(page_state) == page_state = PageIsTruncated

\* either page loop of backup_data_file: blocks are the block numbers still
\* to visit
RECURSIVE BackupPages(_, _, _, _, _, _, _, _)
BackupPages(arguments, in, acc, blocks, prev_backup_start_lsn, backup_mode, calg, pad) ==
    IF blocks = <<>>
    THEN acc
    ELSE LET counted(p, w) ==
                 [file |-> w.file, out |-> w.out, error |-> FALSE,
                  n_blocks_read |-> acc.n_blocks_read + 1,
                  n_blocks_skipped |-> acc.n_blocks_skipped +
                      (IF p.state = SkipCurrentPage THEN 1 ELSE 0)]
             continue(p, next) ==
                 IF ScanStops(p.state) THEN next
                 ELSE BackupPages(arguments, in, next, Tail(blocks),
                                  prev_backup_start_lsn, backup_mode, calg, pad)
             body(p) ==
                 IF p.error THEN [acc EXCEPT !.error = TRUE]
                 ELSE continue(p, counted(p,
                          compress_and_backup_page(acc.file, acc.out, Head(blocks),
                                                   p.state, p.page, calg, pad)))
         IN  body(prepare_page(arguments, in, acc.file, prev_backup_start_lsn,
                               Head(blocks), backup_mode, TRUE))

\* a scan that takes every file as a whole
CopiesAnyFileWhole(f) == TRUE

\* "If page map is empty or file is not present in previous backup backup
\* all pages of the relation."
CopiesWholeFile(f) ==
    \/ f.pagemap.bitmapsize = PageBitmapIsEmpty
    \/ f.pagemap_isabsent
    \/ ~f.exists_in_prev

\* the blocks whose bit is set, as datapagemap_next yields them
RECURSIVE datapagemap_iterate(_, _)
datapagemap_iterate(pagemap, blknum) ==
    IF blknum >= pagemap.bitmapsize
    THEN <<>>
    ELSE (IF blknum \in pagemap.bitmap THEN <<blknum>> ELSE <<>>)
             \o datapagemap_iterate(pagemap, blknum + 1)

\* a mutant of UnlinksEmpty: the file is left in the backup as it is
UnlinksNever(n_blocks_read, n_blocks_skipped) ==
    FALSE

\* backup_data_file: "If we have pagemap then file in the backup can't be a
\* zero size. Otherwise, we will clear the last file."
UnlinksEmpty(n_blocks_read, n_blocks_skipped) ==
    n_blocks_read # 0 /\ n_blocks_read = n_blocks_skipped

\* The relation file exists (fio_fopen succeeds) and is local; out is the
\* file written at to_path, <<>> when the function unlinks it or writes none,
\* and exists tells if there is a file at to_path when the function returns;
\* n_blocks_read and n_blocks_skipped are the counters when it returns.
backup_data_file(arguments, in, f, prev_backup_start_lsn, backup_mode, calg, pad) ==
    LET nblocks == f.size \div BLCKSZ
        whole == CopiesWholeFile(f)
        g(r) == [r.file EXCEPT
                    !.n_blocks = IF whole /\ backup_mode = "DELTA"
                                 THEN r.n_blocks_read ELSE @,
                    !.crc = FIN_FILE_CRC32(@)]
        Result(error, ret, pgfile, to, exists, n_blocks_read, n_blocks_skipped) ==
            [error |-> error, ret |-> ret, file |-> pgfile, out |-> to,
             exists |-> exists, n_blocks_read |-> n_blocks_read,
             n_blocks_skipped |-> n_blocks_skipped]
        close(r) ==
            IF r.error
            THEN Result(TRUE, FALSE, r.file, r.out, TRUE,
                        r.n_blocks_read, r.n_blocks_skipped)
            ELSE IF UnlinksEmpty(r.n_blocks_read, r.n_blocks_skipped)
            THEN Result(FALSE, FALSE, g(r), <<>>, FALSE,
                        r.n_blocks_read, r.n_blocks_skipped)
            ELSE Result(FALSE, TRUE, g(r), r.out, TRUE,
                        r.n_blocks_read, r.n_blocks_skipped)
    IN  IF /\ backup_mode \in {"PAGE", "PTRACK"}
           /\ f.pagemap.bitmapsize = PageBitmapIsEmpty
           /\ f.exists_in_prev
           /\ ~f.pagemap_isabsent
        THEN Result(FALSE, FALSE, f, <<>>, FALSE, 0, 0)
        ELSE close(BackupPages(arguments, in,
                               [file |-> [f EXCEPT !.read_size = 0,
                                                   !.write_size = 0,
                                                   !.crc = INIT_FILE_CRC32],
                                out |-> <<>>, error |-> FALSE,
                                n_blocks_read |-> 0, n_blocks_skipped |-> 0],
                               IF whole
                               THEN [i \in 1..nblocks |-> i - 1]
                               ELSE datapagemap_iterate(f.pagemap, 0),
                               prev_backup_start_lsn, backup_mode, calg, pad))

\* fio_fseek to the block and fio_fwrite of one page: a write behind the end
\* of the file leaves a hole of zeroes
WritePage(out, blknum, page) ==
    IF blknum < Len(out)
    THEN [out EXCEPT ![blknum + 1] = page]
    ELSE out \o [i \in 1..(blknum - Len(out)) |-> ZeroPage] \o <<page>>

fio_ftruncate(out, nblocks) ==
    IF nblocks <= Len(out)
    THEN SubSeq(out, 1, nblocks)
    ELSE out \o [i \in 1..(nblocks - Len(out)) |-> ZeroPage]

RestoreStops(out, need_truncate, truncate_from, error) ==
    [out |-> out, need_truncate |-> need_truncate,
     truncate_from |-> truncate_from, error |-> error]

\* the frame loop of restore_data_file (write_header = false): pos cells of
\* the backup file src are consumed, blknum is the block of the last frame
RECURSIVE RestorePages(_, _, _, _, _, _)
RestorePages(f, src, pos, blknum, out, backup_version) ==
    IF f.write_size = BYTES_INVALID
    THEN RestoreStops(out, FALSE, 0, FALSE)
    ELSE IF f.n_blocks # BLOCKNUM_INVALID /\ blknum + 1 > f.n_blocks
    THEN RestoreStops(out, TRUE, blknum, FALSE)
    ELSE IF Len(src) - pos < HeaderSize
    THEN RestoreStops(out, FALSE, 0, Len(src) # pos)
    ELSE
    LET header == [block |-> src[pos + 1], compressed_size |-> src[pos + 2]]
        body == pos + HeaderSize
        read_len == MAXALIGN(header.compressed_size)
        compressed_page == SubSeq(src, body + 1, body + read_len)
        inflate == \/ header.compressed_size # BLCKSZ
                   \/ page_may_be_compressed(compressed_page, f.compress_alg,
                                             backup_version)
        page == do_decompress(BLCKSZ, compressed_page,
                              header.compressed_size, f.compress_alg)
    IN  IF header.block = 0 /\ header.compressed_size = 0
        THEN RestorePages(f, src, body, blknum, out, backup_version)
        ELSE IF header.block < blknum
        THEN RestoreStops(out, FALSE, 0, TRUE)
        ELSE IF header.compressed_size = PageIsTruncated
        THEN RestoreStops(out, TRUE, header.block, FALSE)
        ELSE IF \/ header.compressed_size < 0
                \/ header.compressed_size > BLCKSZ
                \/ Len(src) - body < read_len
        THEN RestoreStops(out, FALSE, 0, TRUE)
        ELSE IF inflate /\ page.size # BLCKSZ
        THEN RestoreStops(out, FALSE, 0, TRUE)
        ELSE RestorePages(f, src, body + read_len, header.block,
                          WritePage(out, header.block,
                                    IF inflate THEN page.data
                                    ELSE compressed_page),
                          backup_version)

\* to: the target file as it is before the call; src: the file in the backup
restore_data_file(to, f, src, allow_truncate, backup_version) ==
    LET r == RestorePages(f, src, 0, 0, to, backup_version)
        by_size == /\ allow_truncate
                   /\ f.n_blocks # BLOCKNUM_INVALID
                   /\ ~r.need_truncate
                   /\ Len(r.out) > f.n_blocks
        truncate_from == IF by_size THEN f.n_blocks ELSE r.truncate_from
    IN  [error |-> r.error,
         out |-> IF ~r.error /\ (r.need_truncate \/ by_size)
                 THEN fio_ftruncate(r.out, truncate_from)
                 ELSE r.out]

(***************************************************************************)
(* The scenario: the database changes the relation file while a FULL       *)
(* backup P and then a DELTA backup B with parent P are taken; afterwards  *)
(* P and B are restored in this order into an empty directory.             *)
(***************************************************************************)
\* the database is up
DatabaseRuns == dpc \in {"init", "p_listed", "p_done", "b_listed"}

\* The database changes a page: the change is logged, the page carries the
\* LSN of its record.
relation_write(blk, payload) ==
    /\ DataFrame
    /\ DatabaseRuns
    /\ insert_lsn <= MaxLsn
    /\ blk \in 1..Len(relfile)
    /\ relfile' = [relfile EXCEPT ![blk] = NewPage(insert_lsn, payload)]
    /\ insert_lsn' = insert_lsn + 1
    /\ UNCHANGED <<dpc, backups, file, bfile, snap, target>>

\* The database extends the relation by a zeroed page.
relation_extend ==
    /\ DataFrame
    /\ DatabaseRuns
    /\ Len(relfile) < MaxBlocks
    /\ relfile' = Append(relfile, ZeroPage)
    /\ UNCHANGED <<dpc, insert_lsn, backups, file, bfile, snap, target>>

\* The database truncates the relation to nblocks blocks.
relation_truncate(nblocks) ==
    /\ DataFrame
    /\ DatabaseRuns
    /\ nblocks < Len(relfile)
    /\ relfile' = SubSeq(relfile, 1, nblocks)
    /\ UNCHANGED <<dpc, insert_lsn, backups, file, bfile, snap, target>>

\* pgFile of a regular file found by the directory listing
pgFileNew(size, exists_in_prev) ==
    [listed |-> TRUE, size |-> size, exists_in_prev |-> exists_in_prev,
     read_size |-> 0, write_size |-> 0, n_blocks |-> BLOCKNUM_INVALID,
     compress_alg |-> "none", crc |-> 0,
     pagemap |-> [bitmapsize |-> PageBitmapIsEmpty, bitmap |-> {}],
     pagemap_isabsent |-> FALSE]

\* do_backup_instance up to the start of the workers: the backup gets its
\* start LSN and lists PGDATA.  listed: the relation exists at that time
\* (it does when B is taken); exists_in_prev: the parent lists it too.
\* calg is instance_config.compress_alg, the same for both backups.
do_backup_instance_list(b, listed, calg) ==
    /\ DataFrame
    /\ \/ b = "P" /\ dpc = "init"
       \/ b = "B" /\ dpc = "p_done" /\ listed
                  /\ calg = backups["P"].compress_alg
    /\ backups' = [backups EXCEPT ![b].start_lsn = insert_lsn,
                                  ![b].compress_alg = calg]
    /\ file' = [file EXCEPT ![b] =
                   IF listed
                   THEN pgFileNew(Len(relfile) * BLCKSZ,
                                  b = "B" /\ file["P"].listed)
                   ELSE NoEntry]
    /\ dpc' = IF b = "B" THEN "b_listed"
              ELSE IF listed THEN "p_listed" ELSE "p_done"
    /\ UNCHANGED <<relfile, insert_lsn, bfile, snap, target>>

\* prev_backup_start_lsn of do_backup_instance
PrevBackupStartLsn(b) ==
    IF backups[b].backup_mode = "FULL" THEN 0 ELSE backups["P"].start_lsn

\* the relation file as the reads of one backup_data_file call see it:
\* block torn (0: none) stays partly flushed through all rereads
FileAsRead(torn) ==
    [i \in 1..Len(relfile) |-> IF i = torn THEN TornPage ELSE relfile[i]]

\* backup_files for the relation file: backup_data_file, and BYTES_INVALID
\* as write_size when the function reports that nothing was copied
backup_files_datafile(b, pad, torn) ==
    /\ DataFrame
    /\ \/ b = "P" /\ dpc = "p_listed"
       \/ b = "B" /\ dpc = "b_listed"
    /\ LET copied(r) ==
               /\ file' = [file EXCEPT ![b] =
                              IF r.ret THEN r.file
                              ELSE [r.file EXCEPT !.write_size = BYTES_INVALID]]
               /\ bfile' = [bfile EXCEPT ![b] = r.out]
               /\ dpc' = IF r.error THEN "backup_failed"
                         ELSE IF b = "P" THEN "p_done" ELSE "b_done"
       IN  copied(backup_data_file(NoPtrack, Stable(FileAsRead(torn)), file[b],
                                   PrevBackupStartLsn(b),
                                   backups[b].backup_mode,
                                   backups[b].compress_alg, pad))
    /\ snap' = [snap EXCEPT ![b] = relfile]
    /\ UNCHANGED <<relfile, insert_lsn, backups, target>>

\* the restore command truncates by n_blocks for a DELTA backup only
AllowTruncate(b) == backups[b].backup_mode = "DELTA"

\* restore of the relation file from backup b over what is in the target
\* directory; P is restored into an empty directory
restore_files(b) ==
    /\ DataFrame
    /\ \/ b = "P" /\ dpc = "b_done"
       \/ b = "B" /\ dpc = "p_restored"
    /\ LET r == IF file[b].listed
                THEN restore_data_file(target, file[b], bfile[b],
                                       AllowTruncate(b), FixedVersion)
                ELSE [error |-> FALSE, out |-> target]
       IN  /\ target' = r.out
           /\ dpc' = IF b = "P"
                     THEN IF r.error THEN "p_restore_failed" ELSE "p_restored"
                     ELSE IF r.error THEN "b_restore_failed" ELSE "b_restored"
    /\ UNCHANGED <<relfile, insert_lsn, backups, file, bfile, snap>>

NextData ==
    \/ \E blk \in 1..MaxBlocks, payload \in Payloads :
          relation_write(blk, payload)
    \/ relation_extend
    \/ \E nblocks \in 0..MaxBlocks : relation_truncate(nblocks)
    \/ \E b \in Bk, listed \in BOOLEAN, calg \in CompressAlgs :
          do_backup_instance_list(b, listed, calg)
    \/ \E b \in Bk, pad \in {0, 1}, torn \in 0..MaxBlocks :
          backup_files_datafile(b, pad, torn)
    \/ \E b \in Bk : restore_files(b)

SpecData == Init /\ [][NextData]_vars

(***************************************************************************)
(* Claims about the data-file engine                                       *)
(***************************************************************************)
\* the pages backup_data_file read for backup b: the blocks below the listed
\* size that the file still had
PagesRead(b) ==
    LET nblocks == file[b].size \div BLCKSZ
    IN  SubSeq(snap[b], 1, IF nblocks < Len(snap[b]) THEN nblocks
                           ELSE Len(snap[b]))

\* C8: FULL round trip.  For every compression setting, restore_data_file
\* applied to the file that backup_data_file wrote in FULL mode does not
\* fail and yields a target of exactly the pages read at backup time, in
\* content and in length.  Checked under SpecData.
C8_FullRoundTrip ==
    /\ dpc # "p_restore_failed"
    /\ (dpc = "p_restored" /\ file["P"].listed) => target = PagesRead("P")

\* a restored FULL backup that holds a page stored compressed and, the file
\* having shrunk after the listing, the truncation marker
C8_Witness ==
    /\ dpc = "p_restored"
    /\ file["P"].listed
    /\ backups["P"].compress_alg = "zlib"
    /\ Len(target) = 1
    /\ target[1] # ZeroPage
    /\ StoredCompressed(Len(Deflate(target[1])))
    /\ file["P"].size \div BLCKSZ > Len(target)

\* the file of a FULL backup taken when B read the relation, restored into
\* an empty directory
FullBackupAt(b) ==
    LET r == backup_data_file(NoPtrack, Stable(snap[b]),
                              pgFileNew(file[b].size, FALSE), 0,
                              "FULL", backups[b].compress_alg, 0)
    IN  restore_data_file(<<>>, r.file, r.out, FALSE, FixedVersion).out

\* C9: DELTA overlay.  Restoring the parent P and then applying
\* restore_data_file to the file of the DELTA backup B does not fail and
\* yields the same blocks and the same length as a FULL backup taken at B.
\* Checked under SpecData.
C9_DeltaOverlay ==
    /\ dpc # "b_restore_failed"
    /\ dpc = "b_restored" => target = FullBackupAt("B")

\* B skipped a block that P holds and copied one that changed since P
C9_Witness ==
    /\ dpc = "b_restored"
    /\ file["B"].exists_in_prev
    /\ file["B"].write_size > 0
    /\ Len(target) = 2
    /\ Len(snap["P"]) = 2
    /\ snap["B"][1] = snap["P"][1]
    /\ parse_page(snap["B"][1]).lsn \in 1..(backups["P"].start_lsn - 1)
    /\ snap["B"][2] # snap["P"][2]

(***************************************************************************)
(* Backup catalog: catalog.c catalog_get_backup_list,                      *)
(* catalog_get_last_data_backup, scan_parent_chain; backup.c do_backup     *)
(*                                                                         *)
(* catalog holds, for every backup directory, the pgBackup a reader gets:  *)
(* the content of backup.control, or the placeholder of pgBackupInit when  *)
(* the directory has no control file yet.                                  *)
(***************************************************************************)
\* PAGE and PTRACK take the branch of DELTA in the code modelled here
BackupModes == {"FULL", "DELTA"}

\* parray_qsort(backups, pgBackupCompareIdDesc)
RECURSIVE SortIdDesc(_)
SortIdDesc(dirs) ==
    IF dirs = {} THEN <<>>
    ELSE LET first == CHOOSE x \in dirs :
                          \A y \in dirs : y.start_time <= x.start_time
         IN  <<first>> \o SortIdDesc(dirs \ {first})

\* a search that settles for the nearest backup that is not younger
NearestAncestor(sorted, start_time) ==
    IF \E j \in DOMAIN sorted : sorted[j].start_time <= start_time
    THEN CHOOSE j \in DOMAIN sorted :
             /\ sorted[j].start_time <= start_time
             /\ \A k \in DOMAIN sorted :
                   sorted[k].start_time <= start_time => j <= k
    ELSE 0

\* parray_bsearch in the sorted list: the index of the backup, 0 if none
Ancestor(sorted, start_time) ==
    IF \E j \in DOMAIN sorted : sorted[j].start_time = start_time
    THEN CHOOSE j \in DOMAIN sorted : sorted[j].start_time = start_time
    ELSE 0

\* the list in order of descending start time; parent_backup_link is the
\* index of the parent in the list, 0 for NULL
catalog_get_backup_list(dirs) ==
    LET sorted == SortIdDesc(dirs)
    IN  [i \in DOMAIN sorted |->
            [start_time |-> sorted[i].start_time,
             backup_mode |-> sorted[i].backup_mode,
             status |-> sorted[i].status,
             tli |-> sorted[i].tli,
             parent_backup |-> sorted[i].parent_backup,
             parent_backup_link |->
                 IF sorted[i].backup_mode = "FULL" THEN 0
                 ELSE Ancestor(sorted, sorted[i].parent_backup)]]

\* a parent may be any backup that ended, failed ones included
BackupEnded(status) == status \in {"OK", "DONE", "ERROR"}

\* "status == BACKUP_STATUS_OK || status == BACKUP_STATUS_DONE"
BackupCompleted(status) == status \in {"OK", "DONE"}

\* the index of the last completed backup on the timeline, 0 for NULL
catalog_get_last_data_backup(backup_list, tli) ==
    LET found == {i \in DOMAIN backup_list :
                     /\ BackupCompleted(backup_list[i].status)
                     /\ backup_list[i].tli = tli}
    IN  IF found = {} THEN 0
        ELSE CHOOSE i \in found : \A j \in found : i <= j

\* the walk of scan_parent_chain from target_backup on
RECURSIVE ScanChain(_, _, _)
ScanChain(list, target_backup, invalid_backup) ==
    LET backup == list[target_backup]
        not_ok == backup.status # "OK" /\ backup.status # "DONE"
    IN  IF backup.parent_backup_link # 0
        THEN ScanChain(list, backup.parent_backup_link,
                       IF not_ok THEN target_backup ELSE invalid_backup)
        ELSE IF backup.backup_mode # "FULL"
        THEN [result |-> 0, result_backup |-> target_backup]
        ELSE IF not_ok
        THEN [result |-> 1, result_backup |-> target_backup]
        ELSE IF invalid_backup # 0
        THEN [result |-> 1, result_backup |-> invalid_backup]
        ELSE [result |-> 2, result_backup |-> target_backup]

\* scan_parent_chain that takes the backup it starts from for invalid
scan_parent_chain_from_invalid(list, current_backup) ==
    ScanChain(list, current_backup, current_backup)

\* 0: chain is broken, 1: intact but a backup is not OK, 2: intact and OK
scan_parent_chain(list, current_backup) == ScanChain(list, current_backup, 0)

\* write_backup: the control file of the backup's directory is replaced
WriteControl(dirs, backup) ==
    {d \in dirs : d.start_time # backup.start_time} \cup {backup}

\* the process is gone; the next one starts with a new pgBackup
ProcessEnds(s) ==
    /\ spc' = [spc EXCEPT ![s] = "idle"]
    /\ cur' = [cur EXCEPT ![s] = pgBackupInit(0)]

\* The process starts: the backup id is its start time.  Processes start in
\* different seconds (the later of two that start in the same second finds
\* the directory not empty, fails and leaves the catalog as it is).
do_backup_begin(s, backup_mode) ==
    /\ CatFrame /\ UNCHANGED prev_backup
    /\ spc[s] = "idle"
    /\ now <= MaxTime
    /\ cur' = [cur EXCEPT ![s] =
                  [pgBackupInit(now) EXCEPT !.backup_mode = backup_mode,
                                            !.status = "RUNNING"]]
    /\ now' = now + 1
    /\ spc' = [spc EXCEPT ![s] = "begun"]
    /\ UNCHANGED <<catalog, timeline>>

\* the directory of the backup exists, its control file does not yet
pgBackupCreateDir(s) ==
    /\ CatFrame /\ UNCHANGED prev_backup
    /\ spc[s] = "begun"
    /\ catalog' = catalog \cup {pgBackupInit(cur[s].start_time)}
    /\ spc' = [spc EXCEPT ![s] = "created"]
    /\ UNCHANGED <<now, timeline, cur>>

\* do_backup: the first write_backup, after which backup_cleanup is registered
do_backup_write_running(s) ==
    /\ CatFrame /\ UNCHANGED prev_backup
    /\ spc[s] = "created"
    /\ catalog' = WriteControl(catalog, cur[s])
    /\ spc' = [spc EXCEPT ![s] = "running"]
    /\ UNCHANGED <<now, timeline, cur>>

\* do_backup_instance: the timeline and, for an incremental backup, the
\* parent.  Without a completed backup on the timeline the process exits
\* with an error and backup_cleanup writes status ERROR.
do_backup_instance_prev(s) ==
    /\ CatFrame
    /\ spc[s] = "running"
    /\ LET backup_list == catalog_get_backup_list(catalog)
           prev == catalog_get_last_data_backup(backup_list, timeline)
           incremental == cur[s].backup_mode # "FULL"
           backup == [cur[s] EXCEPT
                          !.tli = timeline,
                          !.parent_backup =
                              IF incremental /\ prev # 0
                              THEN backup_list[prev].start_time
                              ELSE @,
                          !.status = IF incremental /\ prev = 0
                                     THEN "ERROR" ELSE @]
       IN  /\ catalog' = WriteControl(catalog, backup)
           /\ prev_backup' = [prev_backup EXCEPT ![s] =
                  IF incremental /\ prev # 0
                  THEN CHOOSE d \in catalog :
                           d.start_time = backup_list[prev].start_time
                  ELSE pgBackupInit(0)]
           /\ IF backup.status = "ERROR"
              THEN ProcessEnds(s)
              ELSE /\ cur' = [cur EXCEPT ![s] = backup]
                   /\ spc' = [spc EXCEPT ![s] = "parent"]
    /\ UNCHANGED <<now, timeline>>

\* a mutant of StartLsnFromPast: any start LSN is taken
StartLsnFromAnyTime(prev_start_lsn, start_lsn) ==
    FALSE

\* do_backup_instance: "For incremental backup check that start_lsn is not
\* from the past"
StartLsnFromPast(prev_start_lsn, start_lsn) ==
    prev_start_lsn > start_lsn

\* do_backup_instance: pg_start_backup sets current.start_lsn; an incremental
\* backup whose start LSN is below the one of its parent ends with an error,
\* and backup_cleanup writes status ERROR; otherwise write_backup, "Update
\* running backup meta with START LSN"
do_backup_instance_start(s, start_lsn) ==
    /\ CatFrame /\ UNCHANGED prev_backup
    /\ spc[s] = "parent"
    /\ LET started == [cur[s] EXCEPT !.start_lsn = start_lsn]
           backup == [started EXCEPT
                          !.status =
                              IF /\ started.backup_mode # "FULL"
                                 /\ StartLsnFromPast(prev_backup[s].start_lsn,
                                                     started.start_lsn)
                              THEN "ERROR" ELSE @]
       IN  /\ catalog' = WriteControl(catalog, backup)
           /\ IF backup.status = "ERROR"
              THEN ProcessEnds(s)
              ELSE /\ cur' = [cur EXCEPT ![s] = backup]
                   /\ spc' = [spc EXCEPT ![s] = "transfer"]
    /\ UNCHANGED <<now, timeline>>

\* pg_stop_backup, the correct end of the backup: the timeline is read again
pg_stop_backup_tli(s) ==
    /\ CatFrame /\ UNCHANGED prev_backup
    /\ spc[s] = "transfer"
    /\ cur' = [cur EXCEPT ![s].tli = timeline]
    /\ spc' = [spc EXCEPT ![s] = "stopped"]
    /\ UNCHANGED <<catalog, now, timeline>>

\* do_backup after do_backup_instance: status DONE
do_backup_write_done(s) ==
    /\ CatFrame /\ UNCHANGED prev_backup
    /\ spc[s] = "stopped"
    /\ cur' = [cur EXCEPT ![s].status = "DONE"]
    /\ catalog' = WriteControl(catalog, cur'[s])
    /\ spc' = [spc EXCEPT ![s] = "done"]
    /\ UNCHANGED <<now, timeline>>

\* the validation of the new backup; DONE: the backup is not validated
do_backup_validate(s, status) ==
    /\ CatFrame /\ UNCHANGED prev_backup
    /\ spc[s] = "done"
    /\ catalog' = WriteControl(catalog, [cur[s] EXCEPT !.status = status])
    /\ ProcessEnds(s)
    /\ UNCHANGED <<now, timeline>>

\* an error while the backup runs: backup_cleanup writes status ERROR
do_backup_error(s) ==
    /\ CatFrame /\ UNCHANGED prev_backup
    /\ spc[s] \in {"running", "parent", "transfer", "stopped"}
    /\ catalog' = WriteControl(catalog, [cur[s] EXCEPT !.status = "ERROR"])
    /\ ProcessEnds(s)
    /\ UNCHANGED <<now, timeline>>

\* the process is killed: the catalog stays as it is
do_backup_killed(s) ==
    /\ CatFrame /\ UNCHANGED prev_backup
    /\ spc[s] # "idle"
    /\ ProcessEnds(s)
    /\ UNCHANGED <<catalog, now, timeline>>

\* the database is promoted
timeline_switch ==
    /\ CatFrame /\ UNCHANGED prev_backup
    /\ timeline < MaxTli
    /\ timeline' = timeline + 1
    /\ UNCHANGED <<catalog, now, spc, cur>>

NextCatalog ==
    \/ \E s \in Sessions, backup_mode \in BackupModes :
          do_backup_begin(s, backup_mode)
    \/ \E s \in Sessions : pgBackupCreateDir(s)
    \/ \E s \in Sessions : do_backup_write_running(s)
    \/ \E s \in Sessions : do_backup_instance_prev(s)
    \/ \E s \in Sessions, start_lsn \in 1..MaxLsn :
          do_backup_instance_start(s, start_lsn)
    \/ \E s \in Sessions : pg_stop_backup_tli(s)
    \/ \E s \in Sessions : do_backup_write_done(s)
    \/ \E s \in Sessions, status \in {"DONE", "OK", "ERROR"} :
          do_backup_validate(s, status)
    \/ \E s \in Sessions : do_backup_error(s)
    \/ \E s \in Sessions : do_backup_killed(s)
    \/ timeline_switch

SpecCatalog == Init /\ [][NextCatalog]_vars

(***************************************************************************)
(* Claims about the backup catalog                                         *)
(***************************************************************************)
\* C10: every non-FULL backup of the catalog with status OK or DONE has its
\* parent in the catalog (a backup whose start time is its
\* parent-backup-id), and scan_parent_chain reports its chain as intact: the
\* chain ends at a FULL backup.  Checked under SpecCatalog.
C10_ParentChainIntact ==
    LET list == catalog_get_backup_list(catalog)
    IN  \A i \in DOMAIN list :
           (list[i].backup_mode # "FULL" /\ list[i].status \in {"OK", "DONE"})
           => /\ \E j \in DOMAIN list :
                    list[j].start_time = list[i].parent_backup
              /\ scan_parent_chain(list, i).result # 0

\* a validated incremental backup on top of a FULL backup, each taken by a
\* process of its own
C10_Witness ==
    LET list == catalog_get_backup_list(catalog)
    IN  \E i \in DOMAIN list :
           /\ list[i].backup_mode = "DELTA"
           /\ list[i].status = "OK"
           /\ list[i].parent_backup_link # 0
           /\ list[list[i].parent_backup_link].backup_mode = "FULL"
           /\ scan_parent_chain(list, i).result = 2
           /\ spc = [s \in Sessions |-> "idle"]

\* C11 as claimed: every completed non-FULL backup records as
\* parent-backup-id the start time of a backup of the catalog that is on the
\* same timeline as the backup itself.
C11_ParentOnSameTimeline ==
    LET list == catalog_get_backup_list(catalog)
    IN  \A i \in DOMAIN list :
           (list[i].backup_mode # "FULL" /\ list[i].status \in {"OK", "DONE"})
           => \E j \in DOMAIN list :
                 /\ list[j].start_time = list[i].parent_backup
                 /\ list[j].tli = list[i].tli

\* What do_backup_instance does guarantee.  An incremental session gets past
\* the choice of its parent (and so to pg_start_backup) only with the most
\* recent backup that the catalog then lists with status OK or DONE on the
\* timeline the database then has; without such a backup it does not get
\* there.
C11_ParentChosenAtSelection ==
    [][\A s \in Sessions :
          (spc[s] = "running" /\ spc'[s] = "transfer"
              /\ cur[s].backup_mode # "FULL")
          => \E d \in catalog :
                /\ d.start_time = cur'[s].parent_backup
                /\ d.status \in {"OK", "DONE"}
                /\ d.tli = timeline /\ cur'[s].tli = timeline
                /\ \A e \in catalog :
                      (e.status \in {"OK", "DONE"} /\ e.tli = timeline)
                      => e.start_time <= d.start_time]_vars

\* an incremental session that the missing parent has ended with an error
C11_NoParentWitness ==
    \E d \in catalog :
        /\ d.backup_mode = "DELTA" /\ d.status = "ERROR"
        /\ d.parent_backup = INVALID_BACKUP_ID
        /\ \A e \in catalog : e.status \notin {"OK", "DONE"}

\* the backup of the catalog that d names as its parent
ParentsOf(d) == {p \in catalog : p.start_time = d.parent_backup}

\* C33: every incremental backup of the catalog that is DONE (or OK after
\* its validation) has a start LSN that is not below the start LSN of its
\* parent, and an incremental backup whose start LSN is below the one of its
\* parent is in the catalog with status ERROR, its process having ended.
C33_StartLsnNotBelowParent ==
    \A d \in catalog :
        d.backup_mode # "FULL" /\ d.start_lsn # 0
        => \A p \in ParentsOf(d) :
              /\ BackupCompleted(d.status) => d.start_lsn >= p.start_lsn
              /\ d.start_lsn < p.start_lsn
                    => /\ d.status = "ERROR"
                       /\ \A s \in Sessions :
                             spc[s] # "idle" => cur[s].start_time # d.start_time

\* a DELTA backup is DONE with a start LSN above the one of its parent, or
\* has ended as ERROR with a start LSN below it
C33_Witness ==
    \E d \in catalog, e \in catalog, p \in catalog :
        /\ d.backup_mode = "DELTA" /\ d.status = "DONE"
        /\ e.backup_mode = "DELTA" /\ e.status = "ERROR"
        /\ p.start_time = d.parent_backup /\ p.start_time = e.parent_backup
        /\ d.start_lsn >= p.start_lsn /\ e.start_lsn # 0
        /\ e.start_lsn < p.start_lsn

(***************************************************************************)
(* Parent chains: catalog.c find_parent_full_backup, scan_parent_chain,    *)
(* is_parent, applied to the list catalog_get_backup_list makes of a       *)
(* catalog.  The catalog is any set of backup directories this program     *)
(* can have written, of which any may since have been removed or have lost *)
(* its control file.                                                       *)
(***************************************************************************)
\* what a backup directory can be: removed, without a readable control file
\* (mode and status INVALID), or a FULL or DELTA backup that has ended
DirSlots ==
    {[present |-> FALSE, backup_mode |-> "INVALID", status |-> "INVALID",
      parent_backup |-> INVALID_BACKUP_ID]}
    \cup {[present |-> TRUE, backup_mode |-> "INVALID", status |-> "INVALID",
           parent_backup |-> INVALID_BACKUP_ID]}
    \cup {[present |-> TRUE, backup_mode |-> "FULL", status |-> st,
           parent_backup |-> INVALID_BACKUP_ID] : st \in {"OK", "DONE", "ERROR"}}
    \cup {[present |-> TRUE, backup_mode |-> "DELTA", status |-> st,
           parent_backup |-> p] : st \in {"OK", "DONE", "ERROR"}, p \in 1..MaxDirs}

\* the directories of an assignment of slots to the start times 1..MaxDirs
DirsOf(f) ==
    {[start_time |-> t, backup_mode |-> f[t].backup_mode,
      status |-> f[t].status, tli |-> 1,
      parent_backup |-> f[t].parent_backup] :
        t \in {u \in 1..MaxDirs : f[u].present}}

\* The parent of an incremental backup was a completed backup when the
\* backup chose it: it is an older backup, or a FULL backup that started
\* later and ended first.  So no backup is its own ancestor.
ChainWritable(f) ==
    \A t \in 1..MaxDirs :
        f[t].backup_mode = "DELTA"
        => /\ f[t].parent_backup # t
           /\ \/ f[t].parent_backup < t
              \/ f[f[t].parent_backup].backup_mode = "FULL"
              \/ ~f[f[t].parent_backup].present

ChainInit ==
    /\ \E f \in [1..MaxDirs -> DirSlots] :
          ChainWritable(f) /\ catalog = DirsOf(f)
    /\ now = 1
    /\ timeline = 1
    /\ spc = [s \in Sessions |-> "idle"]
    /\ cur = [s \in Sessions |-> pgBackupInit(0)]
    /\ prev_backup = [s \in Sessions |-> pgBackupInit(0)]
    /\ call = NoCall

InitChain ==
    LockInit /\ SessInit(FALSE) /\ DataInit /\ ChainInit
    /\ AuxInit

\* the while loop of find_parent_full_backup
RECURSIVE BaseBackup(_, _)
BaseBackup(list, base_full_backup) ==
    IF list[base_full_backup].parent_backup_link # 0
    THEN BaseBackup(list, list[base_full_backup].parent_backup_link)
    ELSE base_full_backup

\* the end of the walk, whatever its mode
find_base_backup(list, current_backup) == BaseBackup(list, current_backup)

\* the index of the FULL backup the chain is based on, 0 for NULL
find_parent_full_backup(list, current_backup) ==
    IF list[BaseBackup(list, current_backup)].backup_mode # "FULL"
    THEN 0
    ELSE BaseBackup(list, current_backup)

\* the while loop of is_parent
RECURSIVE IsParentWalk(_, _, _)
IsParentWalk(list, parent_backup_time, child_backup) ==
    IF /\ list[child_backup].parent_backup_link # 0
       /\ list[child_backup].parent_backup # parent_backup_time
    THEN IsParentWalk(list, parent_backup_time,
                      list[child_backup].parent_backup_link)
    ELSE child_backup

\* is_parent that counts every backup as a child of itself
is_parent_or_self(list, parent_backup_time, child_backup, inclusive) ==
    IF list[child_backup].start_time = parent_backup_time
    THEN TRUE
    ELSE list[IsParentWalk(list, parent_backup_time,
                           child_backup)].parent_backup = parent_backup_time

is_parent(list, parent_backup_time, child_backup, inclusive) ==
    IF inclusive /\ list[child_backup].start_time = parent_backup_time
    THEN TRUE
    ELSE list[IsParentWalk(list, parent_backup_time,
                           child_backup)].parent_backup = parent_backup_time

\* a command reads the catalog
call_catalog_get_backup_list ==
    /\ ChainFrame
    /\ call' = [fn |-> "catalog_get_backup_list",
                list |-> catalog_get_backup_list(catalog)]

call_find_parent_full_backup(current_backup) ==
    /\ ChainFrame
    /\ LET list == catalog_get_backup_list(catalog)
       IN  /\ current_backup \in DOMAIN list
           /\ call' = [fn |-> "find_parent_full_backup", list |-> list,
                       current_backup |-> current_backup,
                       result |-> find_parent_full_backup(list, current_backup)]

call_scan_parent_chain(current_backup) ==
    /\ ChainFrame
    /\ LET list == catalog_get_backup_list(catalog)
       IN  /\ current_backup \in DOMAIN list
           /\ call' = [fn |-> "scan_parent_chain", list |-> list,
                       current_backup |-> current_backup,
                       result |-> scan_parent_chain(list, current_backup)]

call_is_parent(parent_backup_time, child_backup, inclusive) ==
    /\ ChainFrame
    /\ LET list == catalog_get_backup_list(catalog)
       IN  /\ child_backup \in DOMAIN list
           /\ call' = [fn |-> "is_parent", list |-> list,
                       parent_backup_time |-> parent_backup_time,
                       child_backup |-> child_backup,
                       inclusive |-> inclusive,
                       result |-> is_parent(list, parent_backup_time,
                                            child_backup, inclusive)]

NextChain ==
    \/ call_catalog_get_backup_list
    \/ \E current_backup \in 1..MaxDirs :
          call_find_parent_full_backup(current_backup)
    \/ \E current_backup \in 1..MaxDirs :
          call_scan_parent_chain(current_backup)
    \/ \E parent_backup_time \in 1..MaxDirs, child_backup \in 1..MaxDirs,
          inclusive \in BOOLEAN :
          call_is_parent(parent_backup_time, child_backup, inclusive)

SpecChain == InitChain /\ [][NextChain]_vars

(***************************************************************************)
(* Claims about the parent chains (checked under SpecChain)                *)
(***************************************************************************)
\* the walk through the parent links from backup b to the backup without one
RECURSIVE Chain(_, _)
Chain(list, b) ==
    IF list[b].parent_backup_link = 0 THEN <<b>>
    ELSE <<b>> \o Chain(list, list[b].parent_backup_link)

\* C17: catalog_get_backup_list returns the backups of the catalog sorted by
\* start time descending; a FULL backup has no parent link; a non-FULL
\* backup has a parent link if and only if a backup of the list has its
\* parent-backup-id as start time, and the link then points to a backup
\* with that start time.
C17_SortedAndLinked ==
    call.fn = "catalog_get_backup_list"
    => LET list == call.list
       IN  /\ Len(list) = Cardinality(catalog)
           /\ {list[i].start_time : i \in DOMAIN list}
                 = {d.start_time : d \in catalog}
           /\ \A i, j \in DOMAIN list :
                 i < j => list[i].start_time > list[j].start_time
           /\ \A i \in DOMAIN list :
                 IF list[i].backup_mode = "FULL"
                 THEN list[i].parent_backup_link = 0
                 ELSE /\ (list[i].parent_backup_link # 0)
                           <=> \E j \in DOMAIN list :
                                  list[j].start_time = list[i].parent_backup
                      /\ list[i].parent_backup_link # 0
                           => list[list[i].parent_backup_link].start_time
                                 = list[i].parent_backup

\* C17 witness: a list with a linked incremental backup whose parent is
\* itself an incremental backup without a link, its parent being missing
C17_Witness ==
    /\ call.fn = "catalog_get_backup_list"
    /\ \E i, j \in DOMAIN call.list :
          /\ call.list[i].backup_mode = "DELTA"
          /\ call.list[i].parent_backup_link = j
          /\ call.list[j].backup_mode = "DELTA"
          /\ call.list[j].parent_backup_link = 0
          /\ call.list[j].parent_backup # INVALID_BACKUP_ID

\* C18: scan_parent_chain(b) returns 0 with the last backup of the walk from
\* b if and only if that backup is not FULL; otherwise 1 if and only if a
\* backup of the walk (b and the FULL backup included) has a status other
\* than OK and DONE, with the oldest of them, the one nearest to the FULL
\* backup; otherwise 2 with the FULL backup.
C18_ScanParentChain ==
    call.fn = "scan_parent_chain"
    => LET list == call.list
           walk == Chain(list, call.current_backup)
           last == walk[Len(walk)]
           invalid == {k \in DOMAIN walk :
                          list[walk[k]].status \notin {"OK", "DONE"}}
       IN  IF list[last].backup_mode # "FULL"
           THEN call.result = [result |-> 0, result_backup |-> last]
           ELSE IF invalid # {}
           THEN /\ call.result.result = 1
                /\ \E k \in invalid :
                      /\ call.result.result_backup = walk[k]
                      /\ \A m \in invalid : m <= k
           ELSE call.result = [result |-> 2, result_backup |-> last]

\* C18 witness: an intact chain of three backups of which the first two are
\* invalid; the second is reported
C18_Witness ==
    /\ call.fn = "scan_parent_chain"
    /\ Len(Chain(call.list, call.current_backup)) = 3
    /\ call.result.result = 1
    /\ call.result.result_backup = Chain(call.list, call.current_backup)[2]
    /\ call.list[call.current_backup].status = "ERROR"

\* C19 as claimed: is_parent(t, c, inclusive) is true if and only if the walk
\* from c through the parent links reaches a backup with start time t, or
\* inclusive is true and the start time of c is t.
C19_IsParentReaches ==
    call.fn = "is_parent"
    => LET list == call.list
           walk == Chain(list, call.child_backup)
       IN  call.result
           <=> \/ \E k \in 2..Len(walk) :
                     list[walk[k]].start_time = call.parent_backup_time
               \/ /\ call.inclusive
                  /\ list[call.child_backup].start_time = call.parent_backup_time

\* C19 amended: is_parent(t, c, inclusive) is true if and only if the walk
\* from c through the parent links reaches a backup with start time t, or
\* ends at a backup whose parent-backup-id is t while no backup with start
\* time t is in the list, or inclusive is true and the start time of c is t.
C19_IsParentOrMissing ==
    call.fn = "is_parent"
    => LET list == call.list
           walk == Chain(list, call.child_backup)
           last == walk[Len(walk)]
       IN  call.result
           <=> \/ \E k \in 2..Len(walk) :
                     list[walk[k]].start_time = call.parent_backup_time
               \/ /\ list[last].parent_backup = call.parent_backup_time
                  /\ \A j \in DOMAIN list :
                        list[j].start_time # call.parent_backup_time
               \/ /\ call.inclusive
                  /\ list[call.child_backup].start_time = call.parent_backup_time

\* C19 witness: is_parent is true for the parent-backup-id of the parent of
\* c, a backup that is not in the list
C19_Witness ==
    /\ call.fn = "is_parent"
    /\ call.result
    /\ ~call.inclusive
    /\ Len(Chain(call.list, call.child_backup)) = 2
    /\ \A j \in DOMAIN call.list :
          call.list[j].start_time # call.parent_backup_time

\* C20: find_parent_full_backup(b) returns the last backup of the walk from
\* b through the parent links if that backup is FULL and NULL otherwise; it
\* never returns a backup that is not FULL.
C20_FindParentFull ==
    call.fn = "find_parent_full_backup"
    => LET list == call.list
           walk == Chain(list, call.current_backup)
           last == walk[Len(walk)]
       IN  /\ call.result = IF list[last].backup_mode = "FULL" THEN last ELSE 0
           /\ call.result # 0 => list[call.result].backup_mode = "FULL"

\* C20 witness: NULL for an incremental backup whose parent, an incremental
\* backup too, has lost its own parent
C20_Witness ==
    /\ call.fn = "find_parent_full_backup"
    /\ call.result = 0
    /\ Len(Chain(call.list, call.current_backup)) = 2
    /\ call.list[Chain(call.list, call.current_backup)[2]].backup_mode = "DELTA"

(***************************************************************************)
(* Calls of the data-file engine on any data file: the arguments are drawn *)
(* by the initial state, an action applies the function to them            *)
(***************************************************************************)
\* pages the database writes
PageValues ==
    {ZeroPage} \cup {NewPage(lsn, payload) : lsn \in 1..MaxLsn,
                                             payload \in Payloads}

\* a relation file at the time of the reads
RelFiles == UNION {[1..n -> PageValues] : n \in 0..MaxBlocks}

NoPageMap == [bitmapsize |-> PageBitmapIsEmpty, bitmap |-> {}]

\* page maps of a file: none, or bits for the blocks 0..MaxBlocks
PageMaps ==
    {NoPageMap} \cup {[bitmapsize |-> MaxBlocks + 1, bitmap |-> m] :
                         m \in SUBSET (0..MaxBlocks)}

\* The list entry of a data file when the workers start: size from the
\* directory listing, exists_in_prev from the parent's list (incremental
\* modes), the page map from the WAL (PAGE) or from ptrack (PTRACK), where
\* a file marked pagemap_isabsent gets no map.
DataFiles(backup_mode) ==
    {[pgFileNew(n * BLCKSZ, e) EXCEPT !.pagemap = m.map,
                                      !.pagemap_isabsent = m.isabsent] :
        n \in 0..MaxBlocks,
        e \in IF backup_mode = "FULL" THEN {FALSE} ELSE BOOLEAN,
        m \in IF backup_mode \in {"PAGE", "PTRACK"}
              THEN {[map |-> pm, isabsent |-> FALSE] : pm \in PageMaps}
                   \cup {[map |-> NoPageMap, isabsent |-> TRUE] :
                            x \in IF backup_mode = "PTRACK" THEN {1} ELSE {}}
              ELSE {[map |-> NoPageMap, isabsent |-> FALSE]}}

FileBackupModes == {"FULL", "DELTA", "PAGE", "PTRACK"}

\* arguments of a backup_data_file call
FileInputs ==
    UNION {[fn : {"file"}, backup_mode : {backup_mode},
            file : DataFiles(backup_mode), pages : RelFiles,
            prev_backup_start_lsn : IF backup_mode = "DELTA"
                                    THEN 1..(MaxLsn + 1) ELSE {0},
            calg : CompressAlgs] : backup_mode \in FileBackupModes}

\* numbers of reads that find a block partly flushed
TornReads == {0, 1, try_again - 1, try_again}

\* arguments of a prepare_page call: a backup (strict) in any mode, ptrack
\* mode with the extension only; checkdb reads in FULL mode, not strict,
\* and is_ptrack_support keeps its initial value there
PageInputs ==
    {i \in [fn : {"page"}, backup_mode : FileBackupModes, strict : BOOLEAN,
            is_ptrack_support : BOOLEAN, pages : RelFiles,
            torn_block : 0..(MaxBlocks - 1), torn_reads : TornReads,
            blknum : 0..MaxBlocks] :
        /\ i.backup_mode = "PTRACK" => i.is_ptrack_support
        /\ ~i.strict => i.backup_mode = "FULL" /\ ~i.is_ptrack_support}

FileInit == call \in FileInputs \cup PageInputs

InitFile ==
    LockInit /\ SessInit(FALSE) /\ DataInit /\ CatInit /\ FileInit /\ AuxInit

\* the connection of the call: the database holds the pages of the file
ConnectionArgs(is_ptrack_support, pages) ==
    [is_ptrack_support |-> is_ptrack_support, buffers |-> pages]

\* backup_data_file as backup_files calls it for a data file; write_size is
\* what backup_files leaves in the entry of the file list
call_backup_data_file(pad) ==
    /\ ChainFrame
    /\ call.fn = "file"
    /\ LET returned(r) ==
               [fn |-> "backup_data_file", input |-> call, pad |-> pad,
                result |-> r,
                write_size |-> IF r.ret THEN r.file.write_size
                               ELSE NotCopied(r.file.write_size)]
       IN  call' = returned(backup_data_file(
                       ConnectionArgs(call.backup_mode = "PTRACK", call.pages),
                       Stable(call.pages), call.file,
                       call.prev_backup_start_lsn, call.backup_mode,
                       call.calg, pad))

\* the file of a prepare_page call exists in the parent backup, whose start
\* LSN is MaxLsn
call_prepare_page ==
    /\ ChainFrame
    /\ call.fn = "page"
    /\ call' = [fn |-> "prepare_page", input |-> call,
                result |-> prepare_page(
                    ConnectionArgs(call.is_ptrack_support, call.pages),
                    [pages |-> call.pages, torn_block |-> call.torn_block,
                     torn_reads |-> call.torn_reads],
                    pgFileNew(Len(call.pages) * BLCKSZ,
                              call.backup_mode # "FULL"),
                    MaxLsn, call.blknum, call.backup_mode, call.strict)]

\* PageIsNew, or a header that is sane; garbage stands for what the check
\* makes of a buffer nothing wrote to (page = <<>>)
validate_one_page(page, garbage) ==
    IF page = <<>> THEN garbage
    ELSE page[2] = 0 \/ parse_page(page).valid

\* the block loop of check_data_file; acc.curr_page keeps what the last
\* read put there
RECURSIVE CheckPages(_, _, _, _, _, _)
CheckPages(arguments, in, acc, blknum, nblocks, garbage) ==
    IF blknum >= nblocks
    THEN acc
    ELSE LET seen(p, curr_page) ==
                 [is_valid |-> /\ acc.is_valid
                               /\ p.state # PageIsCorrupted
                               /\ validate_one_page(curr_page, garbage),
                  curr_page |-> curr_page,
                  examined |-> Append(acc.examined,
                                      [block |-> blknum, state |-> p.state])]
             body(p) ==
                 IF p.state = PageIsTruncated THEN acc
                 ELSE CheckPages(arguments, in,
                                 seen(p, IF p.page = <<>> THEN acc.curr_page
                                         ELSE p.page),
                                 blknum + 1, nblocks, garbage)
         IN  body(prepare_page(arguments, in, pgFileNew(nblocks * BLCKSZ, FALSE),
                               0, blknum, "FULL", FALSE))

\* the file exists and its listed size is a multiple of BLCKSZ
check_data_file(arguments, in, size, garbage) ==
    CheckPages(arguments, in,
               [is_valid |-> TRUE, curr_page |-> <<>>, examined |-> <<>>],
               0, size \div BLCKSZ, garbage)

call_check_data_file(nblocks, garbage) ==
    /\ ChainFrame
    /\ call.fn = "page"
    /\ ~call.strict
    /\ call.blknum = 0
    /\ call' = [fn |-> "check_data_file", input |-> call, nblocks |-> nblocks,
                garbage |-> garbage,
                result |-> check_data_file(
                    ConnectionArgs(call.is_ptrack_support, call.pages),
                    [pages |-> call.pages, torn_block |-> call.torn_block,
                     torn_reads |-> call.torn_reads],
                    nblocks * BLCKSZ, garbage)]

NextFile ==
    \/ \E pad \in {0, 1} : call_backup_data_file(pad)
    \/ call_prepare_page
    \/ \E nblocks \in 0..MaxBlocks, garbage \in BOOLEAN :
          call_check_data_file(nblocks, garbage)

SpecFile == InitFile /\ [][NextFile]_vars

(***************************************************************************)
(* Claims about the data-file engine on any data file (checked under       *)
(* SpecFile)                                                               *)
(***************************************************************************)
\* the frames of a backup file from cell pos on, as a reader of the file
\* finds them: the two header fields and the bytes stored behind the header
RECURSIVE Frames(_, _)
Frames(out, pos) ==
    IF Len(out) - pos < HeaderSize
    THEN <<>>
    ELSE LET size == out[pos + 2]
             stored == IF size > 0 THEN MAXALIGN(size) ELSE 0
             body == pos + HeaderSize
             last == IF body + stored <= Len(out) THEN body + stored
                     ELSE Len(out)
         IN  <<[block |-> out[pos + 1], compressed_size |-> size,
                stored |-> SubSeq(out, body + 1, last)]>>
                 \o Frames(out, last)

\* a backup_data_file call that returned without an error
Returned == call.fn = "backup_data_file" /\ ~call.result.error

\* C12: backup_data_file has written a backup file: every frame of it has
\* compressed_size <= BLCKSZ and is a truncation marker, or the compressed
\* page with 0 < compressed_size < BLCKSZ, or, whenever do_compress fails or
\* does not shrink the page, the raw page with compressed_size = BLCKSZ; and
\* the crc of the list entry is the CRC over exactly the bytes of the file.
C12_FramesAndCrc ==
    (Returned /\ call.result.ret) =>
        LET out == call.result.out
            pages == call.input.pages
            frames == Frames(out, 0)
            WellFormed(fr) ==
                \/ fr.compressed_size = PageIsTruncated /\ fr.stored = <<>>
                \/ /\ fr.block < Len(pages)
                   /\ LET page == pages[fr.block + 1]
                          c == do_compress(2 * BLCKSZ, page, call.input.calg)
                      IN  IF c.size > 0 /\ c.size < BLCKSZ
                          THEN /\ fr.compressed_size = c.size
                               /\ SubSeq(fr.stored, 1, c.size) = c.data
                               /\ Len(fr.stored) = MAXALIGN(c.size)
                          ELSE /\ fr.compressed_size = BLCKSZ
                               /\ fr.stored = page
        IN  /\ \A i \in DOMAIN frames :
                  /\ frames[i].compressed_size <= BLCKSZ
                  /\ WellFormed(frames[i])
            /\ call.result.file.crc =
                   FIN_FILE_CRC32(CrcFold(INIT_FILE_CRC32, out, Len(out)))
            /\ call.result.file.write_size = Len(out)

\* C12 witness: a file with a compressed frame that has padding and a raw
\* frame of a page the codec could not shrink
C12_Witness ==
    /\ Returned /\ call.result.ret
    /\ call.input.calg # "none"
    /\ call.pad = 1
    /\ LET frames == Frames(call.result.out, 0)
       IN  /\ \E i \in DOMAIN frames :
                 /\ frames[i].compressed_size \in 1..(BLCKSZ - 1)
                 /\ Len(frames[i].stored) > frames[i].compressed_size
           /\ \E i \in DOMAIN frames : frames[i].compressed_size = BLCKSZ

\* C13: in a backup file written by backup_data_file no frame has
\* SkipCurrentPage or PageIsCorrupted as its compressed_size; the frame of a
\* block that the read found behind the end of the file is a PageIsTruncated
\* frame, and a PageIsTruncated frame is the last frame of the file, so
\* there is at most one.
C13_SentinelsOnDisk ==
    (Returned /\ call.result.ret) =>
        LET frames == Frames(call.result.out, 0)
        IN  \A i \in DOMAIN frames :
                /\ frames[i].compressed_size \notin
                       {SkipCurrentPage, PageIsCorrupted}
                /\ frames[i].block >= Len(call.input.pages)
                       <=> frames[i].compressed_size = PageIsTruncated
                /\ frames[i].compressed_size = PageIsTruncated
                       => i = Len(frames)

\* C13 witness: the file ended before blocks of its page map: a page frame,
\* then the one marker, and no frame for the block of the map behind it
C13_Witness ==
    /\ Returned /\ call.result.ret
    /\ call.input.backup_mode = "PAGE"
    /\ call.input.file.exists_in_prev
    /\ LET frames == Frames(call.result.out, 0)
       IN  /\ Len(frames) = 2
           /\ frames[1].compressed_size > 0
           /\ frames[2].compressed_size = PageIsTruncated
           /\ \E blknum \in call.input.file.pagemap.bitmap :
                 blknum > frames[2].block

\* the first read of the block of a prepare_page call that is not invalid
ValidAt(i) ==
    IF i.blknum < Len(i.pages) /\ i.blknum = i.torn_block
    THEN i.torn_reads + 1
    ELSE 1

Min(a, b) == IF a <= b THEN a ELSE b

\* prepare_page went on reading until a read was not invalid or try_again
\* reads were made, and accepted the block with that read
RetriedUntilValid(i, r) ==
    /\ r.reads = Min(ValidAt(i), try_again)
    /\ ValidAt(i) <= try_again
           => /\ ~r.error
              /\ r.state # PageIsCorrupted
              /\ i.blknum < Len(i.pages) => r.page = i.pages[i.blknum + 1]

\* all reads failed, no ptrack: fatal for a backup, PageIsCorrupted for
\* checkdb
FailedWithoutPtrack(i, r) ==
    (ValidAt(i) > try_again /\ ~i.is_ptrack_support)
        => IF i.strict THEN r.error
           ELSE ~r.error /\ r.state = PageIsCorrupted

\* check_data_file on a file with a block that stays invalid reports the
\* file as not valid and goes through all blocks of the file; without such
\* a block no block is reported corrupt
CheckdbContinues ==
    call.fn = "check_data_file" =>
        LET i == call.input
            examined == call.result.examined
            corrupt == {b \in 0..(call.nblocks - 1) :
                           /\ b < Len(i.pages)
                           /\ b = i.torn_block
                           /\ i.torn_reads >= try_again}
        IN  /\ Len(examined) = call.nblocks
            /\ \A k \in DOMAIN examined :
                   /\ examined[k].block = k - 1
                   /\ examined[k].state = PageIsCorrupted
                          <=> examined[k].block \in corrupt
            /\ corrupt # {} => ~call.result.is_valid

\* C14 as stated: prepare_page reads a block at most try_again (100) times;
\* every invalid read is followed by another read and the block is accepted
\* with the first read that is valid; when all reads fail and there is no
\* ptrack, a backup ends with an error while checkdb gets PageIsCorrupted,
\* marks the file not valid and goes on with the next block.
C14_EveryInvalidReadRetried ==
    /\ call.fn = "prepare_page" =>
          /\ call.result.reads <= try_again
          /\ IF call.input.backup_mode = "PTRACK"
             THEN call.result.reads = 0
             ELSE /\ RetriedUntilValid(call.input, call.result)
                  /\ FailedWithoutPtrack(call.input, call.result)
    /\ CheckdbContinues

\* C14, amended: the same, except that a backup (strict) of a database with
\* ptrack makes one read only and, when that read is invalid, takes the page
\* from pg_ptrack_get_block.
C14_RetriedUnlessPtrack ==
    /\ call.fn = "prepare_page" =>
          LET i == call.input
              r == call.result
          IN  /\ r.reads <= try_again
              /\ IF i.backup_mode = "PTRACK"
                 THEN r.reads = 0
                 ELSE IF i.strict /\ i.is_ptrack_support
                 THEN /\ r.reads = 1
                      /\ r.state # PageIsCorrupted
                      /\ (ValidAt(i) > 1 /\ i.blknum < Len(i.pages))
                             => r.page = i.pages[i.blknum + 1]
                 ELSE /\ RetriedUntilValid(i, r)
                      /\ FailedWithoutPtrack(i, r)
    /\ CheckdbContinues

\* C14 witness: a backup of a database with ptrack found the block partly
\* flushed, read it once and took the page from pg_ptrack_get_block
C14_Witness ==
    /\ call.fn = "prepare_page"
    /\ call.input.backup_mode = "FULL"
    /\ call.input.strict /\ call.input.is_ptrack_support
    /\ call.input.torn_reads = try_again
    /\ call.input.blknum = call.input.torn_block
    /\ call.input.blknum < Len(call.input.pages)
    /\ call.result.reads = 1
    /\ ~call.result.error
    /\ call.result.state = 0
    /\ call.result.page = call.input.pages[call.input.blknum + 1]

\* the blocks a scan of the whole file finds: those below the listed size
\* that the file still has when it is read
BlocksFound(i) == 0..(Min(i.file.size \div BLCKSZ, Len(i.pages)) - 1)

\* the blocks the frames of a backup file are for
BlocksOf(out) == {Frames(out, 0)[k].block : k \in DOMAIN Frames(out, 0)}

\* a DELTA call examined every block (and the first missing one, if the file
\* was truncated), wrote frames for the blocks found for which copy holds
\* and counted every other block found as skipped
DeltaCopies(copy(_, _)) ==
    (Returned /\ call.input.backup_mode = "DELTA") =>
        LET i == call.input
            r == call.result
            copied == {b \in BlocksFound(i) : copy(i, i.pages[b + 1][1])}
        IN  /\ r.n_blocks_read =
                   Cardinality(BlocksFound(i))
                       + (IF Len(i.pages) * BLCKSZ < i.file.size THEN 1 ELSE 0)
            /\ r.file.n_blocks = r.n_blocks_read
            /\ BlocksOf(r.out) \cap BlocksFound(i) = copied
            /\ r.n_blocks_skipped = Cardinality(BlocksFound(i) \ copied)

\* C15 as stated: in DELTA mode backup_data_file examines every block of the
\* file, writes a frame for a block if and only if its page LSN is not
\* below the start LSN of the parent backup, and counts every other block as
\* skipped.
C15_CopiesIffLsnNotOlder ==
    LET copy(i, page_lsn) == page_lsn >= i.prev_backup_start_lsn
    IN  DeltaCopies(copy)

\* C15, amended: ... if and only if its page LSN is not below the start LSN
\* of the parent backup, or is zero, or the file is not in the parent
\* backup.
C15_CopiesNewNullifiedOrNewFile ==
    LET copy(i, page_lsn) == \/ page_lsn >= i.prev_backup_start_lsn
                             \/ page_lsn = 0
                             \/ ~i.file.exists_in_prev
    IN  DeltaCopies(copy)

\* C15 witness: of a file that the parent backup has, a page older than the
\* parent was skipped and a zeroed page was copied
C15_Witness ==
    /\ Returned /\ call.input.backup_mode = "DELTA"
    /\ call.input.file.exists_in_prev
    /\ call.result.n_blocks_skipped = 1
    /\ \E b \in BlocksOf(call.result.out) \cap BlocksFound(call.input) :
          call.input.pages[b + 1] = ZeroPage

\* a PAGE or PTRACK call wrote frames for exactly the blocks of the page map
\* up to the first one the file no longer has, each once, in their order
CopiedByMap(i, r) ==
    LET bitmap == i.file.pagemap.bitmap
        frames == Frames(r.out, 0)
    IN  /\ r.ret
        /\ BlocksOf(r.out) =
               {b \in bitmap : \A c \in bitmap : c < b => c < Len(i.pages)}
        /\ \A k \in DOMAIN frames :
               /\ k > 1 => frames[k - 1].block < frames[k].block
               /\ frames[k].block < Len(i.pages)
                      => frames[k].compressed_size > 0

\* ... for every block of the file, up to the first one it no longer has
CopiedWhole(i, r) ==
    /\ r.ret
    /\ BlocksOf(r.out) =
           {b \in 0..(i.file.size \div BLCKSZ - 1) : b <= Len(i.pages)}
    /\ r.n_blocks_skipped = 0

\* C16 as stated: in PAGE and PTRACK mode backup_data_file writes, for a
\* file that has a page map, frames for exactly the blocks set in the map
\* (up to a truncation point), and copies the whole file when the file is
\* marked pagemap_isabsent.
C16_MapBlocksOnly ==
    (Returned /\ call.input.backup_mode \in {"PAGE", "PTRACK"}) =>
        /\ call.input.file.pagemap.bitmapsize # PageBitmapIsEmpty
               => CopiedByMap(call.input, call.result)
        /\ call.input.file.pagemap_isabsent
               => CopiedWhole(call.input, call.result)

\* C16, amended: ... for a file that has a page map and is in the parent
\* backup ...
C16_MapBlocksOfKnownFile ==
    (Returned /\ call.input.backup_mode \in {"PAGE", "PTRACK"}) =>
        /\ (/\ call.input.file.pagemap.bitmapsize # PageBitmapIsEmpty
            /\ call.input.file.exists_in_prev)
               => CopiedByMap(call.input, call.result)
        /\ call.input.file.pagemap_isabsent
               => CopiedWhole(call.input, call.result)

\* C16 witness: of a file of two blocks that the parent backup has, with
\* block 1 alone in the page map, only block 1 was copied
C16_Witness ==
    /\ Returned /\ call.input.backup_mode \in {"PAGE", "PTRACK"}
    /\ call.input.file.exists_in_prev
    /\ call.input.file.pagemap.bitmap = {1}
    /\ Len(call.input.pages) = 2
    /\ BlocksOf(call.result.out) = {1}

\* C32: in an incremental backup, when backup_data_file has read at least one
\* block of a data file and skipped every block it read, there is no file at
\* to_path afterwards, the function returns false, and the entry of the file
\* list gets write_size = BYTES_INVALID.
C32_AllSkippedLeavesNoFile ==
    (/\ Returned /\ call.input.backup_mode # "FULL"
     /\ call.result.n_blocks_read > 0
     /\ call.result.n_blocks_read = call.result.n_blocks_skipped)
        => /\ ~call.result.exists
           /\ call.result.out = <<>>
           /\ ~call.result.ret
           /\ call.write_size = BYTES_INVALID

\* C32 witness: a DELTA backup of a file of two blocks that the parent has,
\* both older than the start LSN of the parent: nothing is left
C32_Witness ==
    /\ Returned /\ call.input.backup_mode = "DELTA"
    /\ call.input.file.exists_in_prev
    /\ Len(call.input.pages) = 2
    /\ call.result.n_blocks_read = 2 /\ call.result.n_blocks_skipped = 2
    /\ ~call.result.exists
    /\ call.write_size = BYTES_INVALID

(***************************************************************************)
(* The threads of one backup session on the file list                      *)
(***************************************************************************)
InitCopy ==
    LockInit /\ SessInit(FALSE) /\ DataInit /\ CatInit /\ call = NoCall
    /\ CopyInitAny /\ StopInit /\ WaitInit

SpecCopy == InitCopy /\ [][NextCopy]_vars

\* C21: every entry of the file list is won by at most one thread through
\* the test-and-set of its flag, only the thread that won an entry writes
\* the fields of the entry, and when every thread has ended with ret = 0
\* every entry has been processed exactly once.
C21_OneThreadPerEntry ==
    \A e \in Entries :
        /\ Len(fhist[e].winners) <= 1
        /\ \A t \in fhist[e].writers : fhist[e].winners = <<t>>
        /\ fhist[e].processed <= 1
        /\ copy_pc = "transfered" => fhist[e].processed = 1

\* the threads have shared the entries and all ended with ret = 0
C21_Witness ==
    /\ copy_pc = "transfered"
    /\ \E e1, e2 \in Entries :
          /\ fhist[e1].winners = <<1>> /\ fhist[e2].winners = <<2>>
          /\ fhist[e1].writers = {1} /\ fhist[e2].writers = {2}

\* the entries whose file a thread has not found
GoneEntries == {e \in Entries : fhist[e].gone}

\* C31: an entry whose file is gone when its thread stats or opens it is
\* marked FILE_NOT_FOUND and the thread goes on behind it; after the threads
\* have been joined without an error do_backup_instance removes every such
\* entry, and the file list written at the end has one line for each of the
\* other entries and none with FILE_NOT_FOUND.
C31_DisappearedAreRemoved ==
    /\ \A e \in GoneEntries :
          /\ fhist[e].processed = 1
          /\ \A t \in Workers : fhist[e].winners = <<t>> => threads[t].i >= e
          /\ copy_pc \in {"join", "transfered", "failed"}
                => files_list[e].write_size = FILE_NOT_FOUND
    /\ copy_pc \in {"removed", "written"}
          => /\ Len(files_list) = NEntries - Cardinality(GoneEntries)
             /\ \A k \in 1..Len(files_list) :
                   files_list[k].write_size # FILE_NOT_FOUND
    /\ copy_pc = "written"
          => /\ Len(backup_content) = NEntries - Cardinality(GoneEntries)
             /\ \A k \in 1..Len(backup_content) :
                   backup_content[k] # FILE_NOT_FOUND

\* the files of the first and of the last entry were gone, the threads have
\* ended without an error, and the list written at the end has the line of
\* the copied entry between them alone
C31_Witness ==
    /\ copy_pc = "written"
    /\ GoneEntries = {1, NEntries}
    /\ Len(backup_content) = NEntries - 2
    /\ backup_content[1] >= 0

(***************************************************************************)
(* pg_stop_backup and the stream thread                                    *)
(***************************************************************************)
InitStop ==
    LockInit /\ SessInit(FALSE) /\ DataInit /\ CatInit /\ call = NoCall
    /\ CopyInit /\ StopInitAny /\ WaitInit

SpecStop == InitStop /\ [][NextStop]_vars

\* C22: when the stop of the backup returns an LSN at offset zero of its
\* page, pg_stop_backup waits for the previous segment only, takes the last
\* valid LSN up to the returned one from the WAL, sets stop_lsn_exists, waits
\* no more and stores the substituted LSN as the stop LSN; in every other
\* case it has waited for the returned LSN before it stores a stop LSN.
C22_StopLsnWaitedFor ==
    stop.pc = "done" =>
        IF XRecOffIsNull(stop.returned)
        THEN /\ stop.waits = <<[lsn |-> stop.returned, wait_prev_segment |-> TRUE]>>
             /\ stop.stop_lsn_exists
             /\ stop.last \in LastWalLsns(StartLsn, stop.returned)
             /\ stop.stop_lsn = stop.last
        ELSE /\ stop.waits = <<[lsn |-> stop.returned, wait_prev_segment |-> FALSE]>>
             /\ ~stop.stop_lsn_exists

\* a backup has ended whose stop LSN is a substituted one
C22_Witness ==
    /\ stop.pc = "done"
    /\ XRecOffIsNull(stop.returned)
    /\ stop.stop_lsn < stop.returned
    /\ stop.stop_lsn = stop_backup_lsn

\* C23: stop_streaming does not return true while stop_backup_lsn is unset,
\* and returns true at the first call at which the streamed position is at
\* or beyond the stop_backup_lsn the main thread has set.
C23_StopPredicate ==
    [][/\ (stream_thread.pc # "finish" /\ stream_thread'.pc = "finish")
            => /\ ~XLogRecPtrIsInvalid(stop_backup_lsn)
               /\ stream_thread'.read \in stop.sets
               /\ stream_thread.xlogpos >= stream_thread'.read
       /\ (stream_thread.pc = "streaming" /\ stream_thread'.pc = "streaming"
              /\ stream_thread' # stream_thread)
            => XLogRecPtrIsInvalid(stop_backup_lsn)
       /\ (stream_thread.pc = "compare" /\ stream_thread'.pc \in {"streaming", "timeout"})
            => /\ stream_thread'.read \in stop.sets
               /\ stream_thread.xlogpos < stream_thread'.read]_vars

\* the stream has ended at the stop LSN after a call below it
C23_Witness ==
    /\ stream_thread.pc = "finish"
    /\ stream_thread.stop_stream_lsn = stop_backup_lsn
    /\ stream_stop_begin # 0

\* C24 as stated: the stream thread fails with "could not be streamed" only
\* when more than checkpoint_timeout * 1.1 seconds have passed since its
\* first call of stop_streaming with stop_backup_lsn set.
C24_WaitsCheckpointTimeout ==
    stream_thread.pc = "timeout" =>
        clock - stream_stop_begin > CheckpointTimeout + CheckpointTimeout \div 10

\* what the thread does: it fails at the first call more than
\* stream_stop_timeout = 0 seconds after that call
C24_FailsAfterAnySecond ==
    /\ stream_thread.pc \notin {"none", "start"} => stream_stop_timeout = 0
    /\ stream_thread.pc = "timeout" => clock - stream_stop_begin > 0

(***************************************************************************)
(* wait_wal_lsn against a WAL directory that changes at will               *)
(***************************************************************************)
InitWait ==
    LockInit /\ SessInit(FALSE) /\ DataInit /\ CatInit /\ call = NoCall
    /\ CopyInit /\ StopInit /\ WaitInitAny

\* the process runs: a step of wait_wal_lsn that can be taken is taken
SpecWait == InitWait /\ [][NextWait]_vars /\ WF_vars(WaitSteps)

WaitEnded == wait.pc \in {"returned", "error"}

\* a failed wait: interrupted, or timed out with the message that fits
WaitFailedRight ==
    wait.pc = "error" =>
        \/ wait.error = "interrupted"
        \/ /\ wait.try_count > wait.timeout
           /\ wait.error = IF wait.file_exists THEN "lsn_not_archived"
                           ELSE "segment_not_archived"

\* C25 as stated: wait_wal_lsn ends; it returns once the segment is there
\* and, unless the previous segment is awaited, the record at the target LSN
\* is found, and otherwise fails.
C25_ReturnsTargetOrFails ==
    /\ <>WaitEnded
    /\ [](wait.pc = "returned" =>
             /\ wait.file_exists
             /\ wait.wait_prev_segment \/ (wait.result = wait.lsn /\ ~wait.prior))
    /\ []WaitFailedRight

\* C25, amended: wait_wal_lsn ends; it returns once the segment is there and,
\* unless the previous segment is awaited, the record at the target LSN is
\* found or, for a backup from a replica, the last valid LSN before the
\* target has been taken in its place; otherwise it fails on an interrupt or
\* after more than timeout polls, with "segment archived, LSN not" if and
\* only if the segment has been seen.
C25_ReturnsOrFails ==
    /\ <>WaitEnded
    /\ [](wait.pc = "returned" =>
             /\ wait.file_exists
             /\ \/ wait.wait_prev_segment
                \/ wait.result = wait.lsn /\ ~wait.prior
                \/ wait.from_replica /\ wait.prior)
    /\ []WaitFailedRight

\* the wait has timed out although the segment was there
C25_Witness ==
    /\ wait.pc = "error" /\ wait.error = "lsn_not_archived"
    /\ wait.try_count = wait.timeout + 1
    /\ ~wait.wait_prev_segment

\* C26: wait_wal_lsn returns the last valid LSN before the target only for a
\* backup from a replica, only with the segment there and the target LSN not
\* found, only after more than a quarter of the timeout; for a primary it
\* returns no LSN but the target.
C26_PriorLsnOnReplicaOnly ==
    [][(wait.pc = "look" /\ wait'.pc = "returned") =>
          /\ wait'.prior =>
                /\ wait.from_replica
                /\ wait'.file_exists /\ ~wal.contains_lsn
                /\ ~wait.wait_prev_segment
                /\ 4 * wait.try_count > wait.timeout
                /\ wait'.result \in LastWalLsns(StartLsn, wait.lsn)
          /\ ~wait.from_replica =>
                wait'.result = IF wait.wait_prev_segment
                               THEN InvalidXLogRecPtr ELSE wait.lsn]_vars

\* a backup from a replica has got an LSN before its target
C26_Witness ==
    /\ wait.pc = "returned" /\ wait.prior
    /\ wait.result < wait.lsn
    /\ wait.try_count = wait.timeout \div 4 + 1

(***************************************************************************)
(* The page maps of a PTRACK backup: backup.c make_pagemap_from_ptrack     *)
(***************************************************************************)
RELSEG_SIZE == 2
HEAPBLOCKS_PER_BYTE == 1
NDatabases == 2
MaxSegments == 3
MaxPtrackSize == 5
GLOBALTABLESPACE_OID == 1664

DEFAULTTABLESPACE_OID == GLOBALTABLESPACE_OID - 1

DbOids == 1..NDatabases

\* the directory of a database, or "global"
pgFileDatabase(tblspcOid, dbOid) ==
    pgFileNew(0, FALSE)
        @@ [is_database |-> TRUE, is_datafile |-> FALSE, tblspcOid |-> tblspcOid,
            dbOid |-> dbOid, relOid |-> 0, segno |-> 0]

\* a segment of the main fork of a relation
pgFileSegment(tblspcOid, dbOid, relOid, segno) ==
    pgFileNew(0, FALSE)
        @@ [is_database |-> FALSE, is_datafile |-> TRUE, tblspcOid |-> tblspcOid,
            dbOid |-> dbOid, relOid |-> relOid, segno |-> segno]

\* the entries of a database directory with one relation of nseg segments,
\* in the order of their paths
DatabaseFiles(tblspcOid, dbOid, nseg) ==
    <<pgFileDatabase(tblspcOid, dbOid)>>
        \o [s \in 1..nseg |-> pgFileSegment(tblspcOid, dbOid, 1, s - 1)]

\* what pg_ptrack_get_and_clear returns for a relation: NULL, or the bytes
\* of its ptrack map, one block to the byte
PtrackMaps(maxlen) ==
    {[null |-> TRUE, bytes |-> <<>>]}
        \cup {[null |-> FALSE, bytes |-> m] :
                  m \in UNION {[1..n -> {0, 1}] : n \in 0..maxlen}}

\* no map
PtrackNull == [null |-> TRUE, bytes |-> <<>>]

\* a database as the server shows it: dropped since the file list was made,
\* template0, or another one with its ptrack_init file or without
DatabaseKinds == {"dropped", "template0", "ptrack_init", "tracked"}

\* a PTRACK backup: "global" with n0 files, a database of kind k1 with n1
\* segments of a relation whose map is p1, a second database likewise
PagemapInputs ==
    {i \in [fn : {"pagemap"}, n0 : 0..1, n1 : 1..MaxSegments, n2 : 0..1,
            k1 : DatabaseKinds, k2 : {"ptrack_init", "tracked"},
            p1 : PtrackMaps(MaxPtrackSize), p2 : PtrackMaps(RELSEG_SIZE)] :
        i.n2 = 1 \/ i.p2.null}

\* the file list of the backup, sorted by path
FileList(i) ==
    DatabaseFiles(DEFAULTTABLESPACE_OID, 1, i.n1)
        \o DatabaseFiles(DEFAULTTABLESPACE_OID, NDatabases, i.n2)
        \o DatabaseFiles(GLOBALTABLESPACE_OID, 0, i.n0)

\* the databases as the server shows them; 0 stands for "global"
DatabasesOf(i) ==
    [d \in {0} \cup DbOids |->
        IF d = 1 THEN i.k1 ELSE IF d = 0 THEN "tracked" ELSE i.k2]

\* the ptrack maps of the relations, by database
PtrackOf(i) ==
    [d \in {0} \cup DbOids |->
        IF d = 1 THEN i.p1
        ELSE IF d = 0 THEN [null |-> FALSE, bytes |-> <<1, 1>>] ELSE i.p2]

\* pg_ptrack_get_and_clear_db: false for a database that is gone, true for
\* template0, else what the extension says
pg_ptrack_get_and_clear_db(database, dbOid) ==
    database[dbOid] \in {"template0", "ptrack_init"}

\* a mutant of IgnoresPtrack: the tablespace alone decides
IgnoresPtrackOfTablespace(f, tblspcOid_with_ptrack_init, dbOid_with_ptrack_init) ==
    f.tblspcOid = tblspcOid_with_ptrack_init

\* make_pagemap_from_ptrack: "ignore ptrack if ptrack_init exists"
IgnoresPtrack(f, tblspcOid_with_ptrack_init, dbOid_with_ptrack_init) ==
    /\ f.tblspcOid = tblspcOid_with_ptrack_init
    /\ f.dbOid = dbOid_with_ptrack_init

\* a mutant of start_addr: every segment gets the head of the map
start_addr_zero(segno) ==
    0

\* make_pagemap_from_ptrack: the beginning of the ptrack map of the segment
start_addr(segno) ==
    (RELSEG_SIZE \div HEAPBLOCKS_PER_BYTE) * segno

\* the bytes of the map from start on, as a page map: its size and the
\* blocks whose byte is set
datapagemap_of(ptrack_nonparsed, start, bitmapsize) ==
    [bitmapsize |-> bitmapsize,
     bitmap |-> {b \in 0..(bitmapsize - 1) :
                    ptrack_nonparsed.bytes[start + b + 1] # 0}]

\* make_pagemap_from_ptrack for a data file outside a ptrack_init database,
\* with the map got for its relation
PagemapOfSegment(f, ptrack_nonparsed) ==
    IF ptrack_nonparsed.null
    THEN [f EXCEPT !.pagemap_isabsent = TRUE]
    ELSE IF start_addr(f.segno) > Len(ptrack_nonparsed.bytes)
    THEN [f EXCEPT !.pagemap_isabsent = TRUE]
    ELSE IF start_addr(f.segno) + RELSEG_SIZE \div HEAPBLOCKS_PER_BYTE
               > Len(ptrack_nonparsed.bytes)
    THEN [f EXCEPT !.pagemap =
             datapagemap_of(ptrack_nonparsed, start_addr(f.segno),
                            Len(ptrack_nonparsed.bytes) - start_addr(f.segno))]
    ELSE [f EXCEPT !.pagemap =
             datapagemap_of(ptrack_nonparsed, start_addr(f.segno),
                            RELSEG_SIZE \div HEAPBLOCKS_PER_BYTE)]

\* the loop of make_pagemap_from_ptrack from entry i on; st holds
\* dbOid_with_ptrack_init, tblspcOid_with_ptrack_init and ptrack_nonparsed
RECURSIVE PagemapLoop(_, _, _, _, _)
PagemapLoop(files, i, st, database, ptrack) ==
    IF i > Len(files) THEN files
    ELSE LET f == files[i]
             flagged == /\ f.is_database
                        /\ \/ f.tblspcOid = GLOBALTABLESPACE_OID
                           \/ pg_ptrack_get_and_clear_db(database, f.dbOid)
             st1 == IF flagged
                    THEN [st EXCEPT !.dbOid_with_ptrack_init = f.dbOid,
                                    !.tblspcOid_with_ptrack_init = f.tblspcOid]
                    ELSE st
             ignored == IgnoresPtrack(f, st1.tblspcOid_with_ptrack_init,
                                      st1.dbOid_with_ptrack_init)
             st2 == IF f.is_datafile /\ ~ignored /\ f.segno = 0
                    THEN [st1 EXCEPT !.ptrack_nonparsed = ptrack[f.dbOid]]
                    ELSE st1
             pgfile == IF ~f.is_datafile THEN f
                       ELSE IF ignored THEN [f EXCEPT !.pagemap_isabsent = TRUE]
                       ELSE PagemapOfSegment(f, st2.ptrack_nonparsed)
         IN PagemapLoop([files EXCEPT ![i] = pgfile], i + 1, st2, database, ptrack)

make_pagemap_from_ptrack(files, database, ptrack) ==
    PagemapLoop(files, 1,
                [dbOid_with_ptrack_init |-> 0, tblspcOid_with_ptrack_init |-> 0,
                 ptrack_nonparsed |-> PtrackNull],
                database, ptrack)

call_make_pagemap_from_ptrack ==
    /\ ChainFrame
    /\ call.fn = "pagemap"
    /\ call' = [fn |-> "make_pagemap_from_ptrack", input |-> call,
                result |-> make_pagemap_from_ptrack(
                    FileList(call), DatabasesOf(call), PtrackOf(call))]

NextPagemap == call_make_pagemap_from_ptrack

InitPagemap ==
    LockInit /\ SessInit(FALSE) /\ DataInit /\ CatInit /\ AuxInit
    /\ call \in PagemapInputs

SpecPagemap == InitPagemap /\ [][NextPagemap]_vars

\* the entire file is copied, whether the parent backup has it or not
CopiedInFull(f) ==
    \A e \in BOOLEAN : CopiesWholeFile([f EXCEPT !.exists_in_prev = e])

\* the slice of len bytes of the map at the offset of the segment
SliceAt(map, segno, len) ==
    [bitmapsize |-> len,
     bitmap |-> {b \in 0..(len - 1) :
                    map.bytes[segno * (RELSEG_SIZE \div HEAPBLOCKS_PER_BYTE) + b + 1] # 0}]

\* P holds for every data file of a database of the list, given the kind of
\* the database and the map of the relation
ForDataFiles(P(_, _, _)) ==
    call.fn = "make_pagemap_from_ptrack" =>
        \A i \in 1..Len(call.result) :
            LET f == call.result[i] IN
            (f.is_datafile /\ f.tblspcOid # GLOBALTABLESPACE_OID)
                => P(f, DatabasesOf(call.input)[f.dbOid],
                        PtrackOf(call.input)[f.dbOid])

\* the map ends before the offset of the segment
SliceBeyond(segno, map) ==
    segno * (RELSEG_SIZE \div HEAPBLOCKS_PER_BYTE) > Len(map.bytes)

\* the file is copied according to its slice: marked absent and copied in
\* full without one, else with the bytes of the map from its offset on
BySlice(f, map) ==
    IF map.null \/ SliceBeyond(f.segno, map)
    THEN f.pagemap_isabsent /\ CopiedInFull(f)
    ELSE /\ ~f.pagemap_isabsent
         /\ f.pagemap = SliceAt(map, f.segno,
                Min(RELSEG_SIZE \div HEAPBLOCKS_PER_BYTE,
                    Len(map.bytes) - f.segno * (RELSEG_SIZE \div HEAPBLOCKS_PER_BYTE)))

\* C27 as stated: in PTRACK mode every data file of a database with
\* ptrack_init is marked pagemap-absent and copied in full whatever the
\* ptrack map says, and the data files of the other databases are copied
\* according to their slice of the map.
C27_InitFullOthersBySlice ==
    ForDataFiles(LAMBDA f, kind, map :
        IF kind = "ptrack_init"
        THEN f.pagemap_isabsent /\ CopiedInFull(f)
        ELSE BySlice(f, map))

\* C27, amended: the same, with template0 treated like a database with
\* ptrack_init.
C27_InitOrTemplateFull ==
    ForDataFiles(LAMBDA f, kind, map :
        IF kind \in {"ptrack_init", "template0"}
        THEN f.pagemap_isabsent /\ CopiedInFull(f)
        ELSE BySlice(f, map))

\* a database with ptrack_init whose relation has a map with set bytes, and
\* behind it a tracked database whose file got its slice
C27_Witness ==
    /\ call.fn = "make_pagemap_from_ptrack"
    /\ call.input.k1 = "ptrack_init"
    /\ ~call.input.p1.null
    /\ \E i \in 1..Len(call.result) :
          /\ call.result[i].is_datafile /\ call.result[i].dbOid = 1
          /\ call.result[i].segno = 1
          /\ call.result[i].pagemap_isabsent
          /\ Len(call.input.p1.bytes) = MaxPtrackSize
          /\ SliceAt(call.input.p1, 1, 1).bitmap # {}
    /\ \E i \in 1..Len(call.result) :
          /\ call.result[i].is_datafile /\ call.result[i].dbOid = NDatabases
          /\ call.input.k2 = "tracked"
          /\ call.result[i].pagemap.bitmap # {}

\* C28 as stated: the slice of a segment starts at segno * RELSEG_SIZE / 8;
\* a file whose slice is missing or shorter than RELSEG_SIZE / 8 bytes is
\* marked pagemap-absent and copied in full.
C28_ShortSliceIsAbsent ==
    ForDataFiles(LAMBDA f, kind, map :
        kind \in {"tracked", "dropped"} =>
            IF \/ map.null
               \/ Len(map.bytes) < (f.segno + 1) * (RELSEG_SIZE \div HEAPBLOCKS_PER_BYTE)
            THEN f.pagemap_isabsent /\ CopiedInFull(f)
            ELSE /\ ~f.pagemap_isabsent
                 /\ f.pagemap = SliceAt(map, f.segno,
                                        RELSEG_SIZE \div HEAPBLOCKS_PER_BYTE))

\* C28, amended: the slice of a segment starts at segno * RELSEG_SIZE / 8; a
\* file whose relation has no map, or whose slice would start behind the
\* end of the map, is marked pagemap-absent and copied in full; a slice
\* shorter than RELSEG_SIZE / 8 bytes is taken as long as it is.
C28_MissingSliceIsAbsent ==
    ForDataFiles(LAMBDA f, kind, map :
        kind \in {"tracked", "dropped"} => BySlice(f, map))

\* a second segment with a slice of one byte, and a third without a slice
C28_Witness ==
    /\ call.fn = "make_pagemap_from_ptrack"
    /\ call.input.k1 = "tracked"
    /\ \E i, j \in 1..Len(call.result) :
          /\ call.result[i].is_datafile /\ call.result[i].dbOid = 1
          /\ call.result[i].segno = 1
          /\ ~call.result[i].pagemap_isabsent
          /\ call.result[i].pagemap = [bitmapsize |-> 1, bitmap |-> {0}]
          /\ call.result[j].is_datafile /\ call.result[j].dbOid = 1
          /\ call.result[j].segno = MaxSegments - 1
          /\ call.result[j].pagemap_isabsent

(***************************************************************************)
(* The file list of a backup: catalog.c write_backup_filelist              *)
(*                                                                         *)
(* An entry of the list is the length of the line sprintf makes of it; a   *)
(* line is the pair <<number of the entry, length>>.  The call is held in  *)
(* the variable call: the loop index i, the lines in buf below write_len,  *)
(* the lines written to backup_content.control.tmp and, once it is         *)
(* renamed, backup_content.control.                                        *)
(***************************************************************************)
BUFFERSZ == 4
MaxLineLen == 2
MaxFiles == 5

FilelistInputs ==
    {[fn |-> "filelist", files |-> files] :
        files \in UNION {[1..n -> 1..MaxLineLen] : n \in 0..MaxFiles}}

\* the line of entry k of the list
LineOf(files, k) == <<k, files[k]>>

\* catalog.c:646-649
write_backup_filelist_open ==
    /\ ChainFrame
    /\ call.fn = "filelist"
    /\ call' = [fn |-> "write_backup_filelist", files |-> call.files,
                pc |-> "loop", i |-> 0, buf |-> <<>>, write_len |-> 0,
                out |-> <<>>, path_temp |-> TRUE, content |-> <<>>,
                renamed |-> FALSE]

\* catalog.c:653-718: one turn of the loop over the list; fwrite_ok is the
\* outcome of fio_fwrite where the turn calls it
write_backup_filelist_line(fwrite_ok) ==
    /\ ChainFrame
    /\ call.fn = "write_backup_filelist" /\ call.pc = "loop"
    /\ call.i < Len(call.files)
    /\ LET line == LineOf(call.files, call.i + 1)
           len == line[2]
       IN IF call.write_len + len <= BUFFERSZ
          THEN /\ fwrite_ok
               /\ call' = [call EXCEPT !.i = @ + 1,
                                       !.buf = Append(@, line),
                                       !.write_len = @ + len]
          ELSE IF ~fwrite_ok
          THEN call' = [call EXCEPT !.i = @ + 1, !.pc = "error",
                                    !.path_temp = FALSE]
          ELSE call' = [call EXCEPT !.i = @ + 1,
                                    !.out = @ \o call.buf,
                                    !.buf = <<>>,
                                    !.write_len = 0]

\* catalog.c:720-747: the rest of the buffer, the close and the rename
write_backup_filelist_close(fwrite_ok) ==
    /\ ChainFrame
    /\ call.fn = "write_backup_filelist" /\ call.pc = "loop"
    /\ call.i = Len(call.files)
    /\ IF call.write_len > 0 /\ ~fwrite_ok
       THEN call' = [call EXCEPT !.pc = "error", !.path_temp = FALSE]
       ELSE call' = [call EXCEPT !.pc = "done",
                                 !.out = @ \o call.buf,
                                 !.content = call.out \o call.buf,
                                 !.path_temp = FALSE,
                                 !.renamed = TRUE]

NextFilelist ==
    \/ write_backup_filelist_open
    \/ \E fwrite_ok \in BOOLEAN : write_backup_filelist_line(fwrite_ok)
    \/ \E fwrite_ok \in BOOLEAN : write_backup_filelist_close(fwrite_ok)

InitFilelist ==
    LockInit /\ SessInit(FALSE) /\ DataInit /\ CatInit /\ AuxInit
    /\ call \in FilelistInputs

SpecFilelist == InitFilelist /\ [][NextFilelist]_vars

\* the file list has been written and renamed
FilelistWritten == call.fn = "write_backup_filelist" /\ call.pc = "done"

\* C37: write_backup_filelist writes one line per entry of the list, in the
\* order of the list, whatever the number and the length of the entries.
C37_OneLinePerEntry ==
    FilelistWritten =>
        call.content = [k \in 1..Len(call.files) |-> LineOf(call.files, k)]

\* what the code keeps: the lines written are lines of the list, in the
\* order of the list, and none is written twice
C37_LinesInOrder ==
    FilelistWritten =>
        /\ \A n \in 1..Len(call.content) :
              /\ call.content[n][1] \in 1..Len(call.files)
              /\ call.content[n] = LineOf(call.files, call.content[n][1])
        /\ \A m, n \in 1..Len(call.content) :
              m < n => call.content[m][1] < call.content[n][1]

\* a list that fills the buffer: the entry that met the full buffer is not
\* in the file
C37_LostLine ==
    /\ FilelistWritten
    /\ Len(call.content) < Len(call.files)
    /\ \E k \in 1..Len(call.files) :
          \A n \in 1..Len(call.content) : call.content[n][1] # k

(***************************************************************************)
(* The files of unlogged relations: backup.c parse_filelist_filenames      *)
(*                                                                         *)
(* A file of a relation is named <relOid>[_<fork>][.<segno>].  The list    *)
(* is sorted by path before the call (backup.c:366), in the byte order of  *)
(* the names; a name is the sequence of the codes of its characters.       *)
(***************************************************************************)
RelOids == {1, 10}
ForkNames == {"", "fsm", "init", "vm"}

RECURSIVE Digits(_)
Digits(n) ==
    IF n < 10 THEN <<48 + n>> ELSE Digits(n \div 10) \o <<48 + (n % 10)>>

ForkChars(forkName) ==
    CASE forkName = "fsm" -> <<95, 102, 115, 109>>
      [] forkName = "init" -> <<95, 105, 110, 105, 116>>
      [] forkName = "vm" -> <<95, 118, 109>>
      [] OTHER -> <<>>

FileName(relOid, forkName, segno) ==
    Digits(relOid) \o ForkChars(forkName)
        \o (IF segno > 0 THEN <<46>> \o Digits(segno) ELSE <<>>)

\* the files a relation can have: two segments of the main fork, and forks
RelationFiles ==
    {f \in {[relOid |-> relOid, forkName |-> forkName, segno |-> segno,
             name |-> FileName(relOid, forkName, segno)] :
                relOid \in RelOids, forkName \in ForkNames, segno \in 0..1} :
        f.segno = 0 \/ f.forkName = ""}

\* strcmp(a, b) < 0
StrLess(a, b) ==
    \E k \in 1..(Len(b)) :
        /\ \A j \in 1..(k - 1) : j <= Len(a) /\ a[j] = b[j]
        /\ k > Len(a) \/ a[k] < b[k]

\* backup.c:366, parray_qsort(backup_files_list, pgFileComparePath)
RECURSIVE SortByPath(_)
SortByPath(S) ==
    IF S = {} THEN <<>>
    ELSE LET first == CHOOSE f \in S :
                        \A g \in S \ {f} : StrLess(f.name, g.name)
         IN <<first>> \o SortByPath(S \ {first})

UnloggedInputs ==
    {[fn |-> "filelist_names", files |-> SortByPath(S)] :
        S \in SUBSET RelationFiles}

\* backup.c:2217-2229: the scan backward from the init fork at index i,
\* which removes the files before it as long as they are of its relation;
\* the result is the list and the new index of the init fork.  Indexes are
\* those of the code, from 0.
RECURSIVE ScanBackward(_, _, _, _)
ScanBackward(files, unlogged_file_num, i, unlogged_file_reloid) ==
    IF unlogged_file_num >= 0 /\ unlogged_file_reloid # 0
          /\ files[unlogged_file_num + 1].relOid = unlogged_file_reloid
    THEN ScanBackward(parray_remove(files, unlogged_file_num),
                      unlogged_file_num - 1, i - 1, unlogged_file_reloid)
    ELSE [files |-> files, i |-> i]

\* backup.c:2169-2236, the loop over the list
RECURSIVE ParseLoop(_, _)
ParseLoop(files, i) ==
    IF i >= Len(files) THEN files
    ELSE IF files[i + 1].forkName = "init"
    THEN LET scanned == ScanBackward(files, i - 1, i, files[i + 1].relOid)
         IN ParseLoop(scanned.files, scanned.i + 1)
    ELSE ParseLoop(files, i + 1)

parse_filelist_filenames(files) == ParseLoop(files, 0)

call_parse_filelist_filenames ==
    /\ ChainFrame
    /\ call.fn = "filelist_names"
    /\ call' = [fn |-> "parse_filelist_filenames", input |-> call.files,
                result |-> parse_filelist_filenames(call.files)]

NextUnlogged == call_parse_filelist_filenames

InitUnlogged ==
    LockInit /\ SessInit(FALSE) /\ DataInit /\ CatInit /\ AuxInit
    /\ call \in UnloggedInputs

SpecUnlogged == InitUnlogged /\ [][NextUnlogged]_vars

Range(seq) == {seq[k] : k \in 1..Len(seq)}

\* the relation of the file has an init fork in the list
IsUnlogged(f, files) ==
    \E g \in Range(files) : g.relOid = f.relOid /\ g.forkName = "init"

\* C38: after parse_filelist_filenames the list holds no file of a fork
\* other than init (main fork, its segments, _fsm, _vm) of a relation that
\* has an init fork in the list.
C38_NoForkOfUnlogged ==
    call.fn = "parse_filelist_filenames" =>
        \A f \in Range(call.result) :
            IsUnlogged(f, call.result) => f.forkName = "init"

\* what the code keeps: the init forks stay, the files of the relations
\* without init fork stay, the order stays, and the file just before an
\* init fork is not of its relation
C38_RemovesOnlyUnlogged ==
    call.fn = "parse_filelist_filenames" =>
        /\ \A f \in Range(call.input) :
              f.forkName = "init" \/ ~IsUnlogged(f, call.input)
                  => f \in Range(call.result)
        /\ Range(call.result) \subseteq Range(call.input)
        /\ \A k \in 1..(Len(call.result) - 1) :
              /\ StrLess(call.result[k].name, call.result[k + 1].name)
              /\ call.result[k + 1].forkName = "init"
                    => call.result[k].relOid # call.result[k + 1].relOid

\* the _vm fork is sorted behind the init fork and stays in the list
C38_VmForkKept ==
    /\ call.fn = "parse_filelist_filenames"
    /\ \E f, g \in Range(call.result) :
          /\ f.relOid = 1 /\ f.forkName = "vm"
          /\ g.relOid = 1 /\ g.forkName = "init"

\* the files of relation 10 are sorted between the main fork of relation 1
\* and its init fork, and the main fork of relation 1 stays in the list
C38_MainForkKept ==
    /\ call.fn = "parse_filelist_filenames"
    /\ \E f, g \in Range(call.result) :
          /\ f.relOid = 1 /\ f.forkName = "" /\ f.segno = 0
          /\ g.relOid = 1 /\ g.forkName = "init"
    /\ \A f \in Range(call.input) : f.forkName # "vm"

(***************************************************************************)
(* Parent links of any catalog: catalog.c catalog_get_backup_list and the  *)
(* walk of find_parent_full_backup, step by step.  The catalog is any set  *)
(* of backup directories with control files readBackupControlFile reads,   *)
(* whoever has written them.                                               *)
(***************************************************************************)
ChainInitAny ==
    /\ \E f \in [1..MaxDirs -> DirSlots] : catalog = DirsOf(f)
    /\ now = 1
    /\ timeline = 1
    /\ spc = [s \in Sessions |-> "idle"]
    /\ cur = [s \in Sessions |-> pgBackupInit(0)]
    /\ prev_backup = [s \in Sessions |-> pgBackupInit(0)]
    /\ call = NoCall

\* catalog.c:1123-1128: the walk starts at a backup of the list
find_parent_full_backup_enter(current_backup) ==
    /\ ChainFrame
    /\ call.fn = "catalog_get_backup_list"
    /\ current_backup \in DOMAIN call.list
    /\ call' = [fn |-> "find_parent_full_backup", list |-> call.list,
                base_full_backup |-> current_backup,
                visited |-> {current_backup}, pc |-> "while"]

\* catalog.c:1130-1133: one test of the condition of the while loop, and
\* one turn of the loop if it holds; visited is history
find_parent_full_backup_while ==
    /\ ChainFrame
    /\ call.fn = "find_parent_full_backup" /\ call.pc = "while"
    /\ LET link == call.list[call.base_full_backup].parent_backup_link
       IN IF link # 0
          THEN call' = [call EXCEPT !.base_full_backup = link,
                                    !.visited = @ \cup {link}]
          ELSE call' = [call EXCEPT !.pc = "returned"]

NextChainAny ==
    \/ call_catalog_get_backup_list
    \/ \E current_backup \in 1..MaxDirs :
          find_parent_full_backup_enter(current_backup)
    \/ find_parent_full_backup_while

InitChainAny ==
    LockInit /\ SessInit(FALSE) /\ DataInit /\ ChainInitAny /\ AuxInit

SpecChainAny == InitChainAny /\ [][NextChainAny]_vars

\* where n steps along the parent links lead from backup b, 0 once the walk
\* has passed a backup without parent link
RECURSIVE LinkWalk(_, _, _)
LinkWalk(list, b, n) ==
    IF n = 0 \/ b = 0 THEN b
    ELSE LinkWalk(list, list[b].parent_backup_link, n - 1)

\* C39: after enumeration the parent links form a forest: the walk along
\* the parent links from any backup of the list reaches a backup without
\* parent link after finitely many steps (fewer than the list has backups),
\* for every catalog content that enumeration accepts.
C39_LinksFormForest ==
    call.fn = "catalog_get_backup_list" =>
        \A b \in DOMAIN call.list :
            LinkWalk(call.list, b, Len(call.list)) = 0

\* the walk of find_parent_full_backup is back at a backup it has left
C39_WalkInCycle ==
    /\ call.fn = "find_parent_full_backup" /\ call.pc = "while"
    /\ call.list[call.base_full_backup].parent_backup_link \in call.visited

\* a walk that has entered a cycle does not return: whatever it does next,
\* it is in the cycle afterwards
C39_CycleNeverLeft ==
    [][C39_WalkInCycle /\ call'.fn = "find_parent_full_backup"
          => C39_WalkInCycle']_vars

(***************************************************************************)
(* The status of a backup: catalog.c write_backup_status, read_backup and  *)
(* readBackupControlFile.  The control file is the sequence of the lines   *)
(* pgBackupWriteControl prints, if the file exists; a pgBackup has the     *)
(* fields these lines hold.                                                *)
(***************************************************************************)
StatusNames == {"RUNNING", "DONE", "OK", "ERROR"}
MaxEndTime == 2
MaxDataBytes == 1

\* every pgBackup of the model, in memory or read from a control file
PgBackups ==
    [status : StatusNames \cup {"INVALID"}, end_time : 0..MaxEndTime,
     data_bytes : {BYTES_INVALID} \cup 0..MaxDataBytes]

\* the number a line of the control file stands for
ParseNumber(value) ==
    CHOOSE n \in BYTES_INVALID..(MaxEndTime + MaxDataBytes) : ToString(n) = value

\* the control files of the catalog: none, an empty one, one without
\* start-time, and those write_backup has written
ControlFiles ==
    {[exists |-> FALSE, lines |-> <<>>], [exists |-> TRUE, lines |-> <<>>]}
    \cup {[exists |-> TRUE, lines |-> pgBackupWriteControl(b)] :
             b \in PgBackups}
    \cup {[exists |-> TRUE, lines |-> Tail(pgBackupWriteControl(b))] :
             b \in PgBackups}

NullBackup == [null |-> TRUE]

\* catalog.c:755-900: NULL, or pgBackupInit and the values of the lines
readBackupControlFile(conf) ==
    IF ~conf.exists THEN NullBackup
    ELSE IF Len(conf.lines) = 0 THEN NullBackup
    ELSE IF ControlValue(conf.lines, "start-time") = "" THEN NullBackup
    ELSE [null |-> FALSE,
          status |-> IF ControlValue(conf.lines, "status") \in StatusNames
                     THEN ControlValue(conf.lines, "status") ELSE "INVALID",
          end_time |-> IF ControlValue(conf.lines, "end-time") = "" THEN 0
                       ELSE ParseNumber(ControlValue(conf.lines, "end-time")),
          data_bytes |-> IF ControlValue(conf.lines, "data-bytes") = ""
                         THEN BYTES_INVALID
                         ELSE ParseNumber(ControlValue(conf.lines, "data-bytes"))]

\* a mutant of StatusWrittenFrom: the backup in memory is written
StatusWrittenFromMemory(tmp, backup) ==
    backup

\* catalog.c:76, 87-88: the backup write_backup_status writes is the one it
\* has read, not the one it was called with
StatusWrittenFrom(tmp, backup) ==
    tmp

\* write_backup_status(backup, status) with control file content on disk;
\* write_ok is the outcome of write_backup, which ends the process with an
\* error and leaves the file as it is when it fails
write_backup_status(content, backup, status, write_ok) ==
    LET tmp == readBackupControlFile(content)
    IN  IF tmp.null
        THEN [content |-> content, backup |-> backup, error |-> FALSE]
        ELSE LET written == [StatusWrittenFrom([status |-> tmp.status,
                                                end_time |-> tmp.end_time,
                                                data_bytes |-> tmp.data_bytes],
                                               backup)
                                EXCEPT !.status = status]
             IN  [content |-> IF write_ok
                              THEN [exists |-> TRUE,
                                    lines |-> pgBackupWriteControl(written)]
                              ELSE content,
                  backup |-> [backup EXCEPT !.status = status],
                  error |-> ~write_ok]

StatusInputs ==
    [fn : {"status"}, content : ControlFiles, backup : PgBackups,
     status : StatusNames]

call_write_backup_status(write_ok) ==
    /\ ChainFrame
    /\ call.fn = "status"
    /\ call' = [fn |-> "write_backup_status", input |-> call,
                write_ok |-> write_ok,
                result |-> write_backup_status(call.content, call.backup,
                                               call.status, write_ok)]

NextStatus == \E write_ok \in BOOLEAN : call_write_backup_status(write_ok)

InitStatus ==
    LockInit /\ SessInit(FALSE) /\ DataInit /\ CatInit /\ AuxInit
    /\ call \in StatusInputs

SpecStatus == InitStatus /\ [][NextStatus]_vars

\* the keys of the lines of a control file
KeysOf(content) == {content[k][1] : k \in 1..Len(content)}

\* C40: write_backup_status(b, s) reads b's control file again and writes it
\* with only the status changed to s, every other stored field keeping the
\* value it has on disk; if the control file cannot be read it writes
\* nothing and leaves the disk and the status of b in memory as they are.
C40_OnlyStatusChanges ==
    call.fn = "write_backup_status" =>
        LET old == call.input.content.lines
            new == call.result.content.lines
        IN  IF readBackupControlFile(call.input.content).null
            THEN /\ call.result.content = call.input.content
                 /\ call.result.backup.status = call.input.backup.status
                 /\ ~call.result.error
            ELSE IF ~call.write_ok
            THEN call.result.content = call.input.content /\ call.result.error
            ELSE /\ ControlValue(new, "status") = call.input.status
                 /\ KeysOf(new) = KeysOf(old) \cup {"status"}
                 /\ \A key \in KeysOf(new) \ {"status"} :
                       ControlValue(new, key) = ControlValue(old, key)
                 /\ call.result.backup.status = call.input.status

\* a status is written over a control file whose end-time and data-bytes
\* the backup in memory does not have
C40_Witness ==
    /\ call.fn = "write_backup_status" /\ call.write_ok
    /\ ~readBackupControlFile(call.input.content).null
    /\ ControlValue(call.input.content.lines, "status") # call.input.status
    /\ ControlValue(call.result.content.lines, "status") = call.input.status
    /\ ControlValue(call.input.content.lines, "end-time") = "1"
    /\ ControlValue(call.result.content.lines, "end-time") = "1"
    /\ call.input.backup.end_time = MaxEndTime
    /\ ControlValue(call.result.content.lines, "data-bytes") = ""
    /\ call.input.backup.data_bytes = 0

\* a status is not written: there is no control file to read
C40_UnreadableWitness ==
    /\ call.fn = "write_backup_status"
    /\ ~call.input.content.exists \/ call.input.content.lines = <<>>
    /\ call.result.content = call.input.content
    /\ call.input.backup.status # call.input.status

====
